---- MODULE Spec2Model ----
(***************************************************************************)
(* Model of the automation engine of Revolution Idle Sacrifice Automation  *)
(* (src/src/automation_engine.py) with the colour matcher of               *)
(* src/utils/color_utils.py and the counter of src/utils/display_utils.py. *)
(*                                                                         *)
(* One engine thread executes run_automation statement by statement (pc);  *)
(* another thread may call stop() or make the stop callback return true    *)
(* between any two statements.  Python's None is the empty tuple; a dict   *)
(* is a function from its keys; list indices are 0-based as in the source  *)
(* (entry i of a list l is l[i + 1]).                                      *)
(*                                                                         *)
(* Spec      the engine with a synthetic-input collaborator (pynput) that  *)
(*           accepts every event;                                          *)
(* FairSpec  Spec with the engine thread scheduled;                        *)
(* SpecFault the engine with a collaborator whose calls can raise;         *)
(* CountSpec Spec with the presses and clicks of a run counted;            *)
(* GuiSpec   the automation threads started by src/src/gui/app.py;         *)
(* MatchSpec calls of colors_match;                                        *)
(* BatchSpec calls of get_multiple_pixel_colors;                           *)
(* ReplaySpec a call of run_automation made again with the same samples;   *)
(* SetupSpec setup mode and the configuration file;                        *)
(* CliSpec   automation mode of the command-line application;              *)
(* OffsetSpec calls of get_pixel_color and get_multiple_pixel_colors near  *)
(*           the origin of the screen.                                     *)
(***************************************************************************)
EXTENDS Integers, Sequences, FiniteSets, TLC

VARIABLES
    pc,                      \* position of the engine thread in run_automation
    click_coords,            \* argument click_coords of the current call
    target_rgbs,             \* argument target_rgbs of the current call
    stop_callback,           \* "None", or what the callback returns now: "false"/"true"
    is_running,              \* AutomationEngine.is_running
    sacrifice_count,         \* PerformanceTracker.sacrifice_count
    tracking,                \* PerformanceTracker.automation_start_time > 0
    current_colors,          \* result of the cycle's batch sample
    slot_index,              \* loop variable of _check_zodiac_slots
    current_sacrifice_color, \* the fresh sample of _perform_sacrifice_action
    events,                  \* samples and mouse events of the current cycle, in order
    cycles,                  \* loop iterations entered by the current call
    runs,                    \* calls of run_automation made so far
    last_result,             \* how the last call ended
    stopIssued,              \* history: stop() was called during the current call
    stopInCycle,             \* history: a stop request arrived inside the current cycle
    countAtEntry,            \* history: sacrifice_count when the current call was entered
    countAtStop,             \* history: sacrifice_count when stopInCycle was set
    failure,                 \* what became of an exception the collaborator raised in this call
    clicksInRun,             \* history: confirm clicks issued since the run was initialized
    dragsInRun,              \* history: presses issued since the run was initialized
    is_automation_running,   \* RevolutionIdleGUI.is_automation_running
    worker,                  \* position of each automation thread the GUI has started
    after_queue,             \* callbacks handed to root.after, not yet run by the main loop
    keyboard_listener,       \* RevolutionIdleGUI.keyboard_listener is set
    stoppedInDelay,          \* history: threads whose start delay saw _stop_automation, no start since
    cycled,                  \* history: threads that have run the body of an iteration
    match_pc,                \* "idle", "called" or "returned": a call of colors_match
    match_args,              \* arguments of a call of colors_match
    match_result,            \* what that call returned
    batch_coordinates,       \* argument of a call of get_multiple_pixel_colors
    batch_screen,            \* what the display shows during that call
    batch_pc,                \* position inside get_multiple_pixel_colors
    screenshot,              \* local screenshot: the captured region
    grabs,                   \* calls of ImageGrab.grab made by that call
    batch_colors,            \* local colors
    batch_result,            \* what the call returned
    tape,                    \* the samples the recorded run drew, in order
    tape_pos,                \* samples of the tape the replayed run has drawn
    trace,                   \* mouse events of the current call, over all its cycles
    first,                   \* how the recorded run went: its arguments, trace and count
    setup_state,             \* SetupState: current_step, zodiac_slot_count, click_coords, target_rgbs
    MAX_ZODIAC_SLOTS,        \* the setting max_zodiac_slots of this session
    config_manager,          \* ConfigManager.click_coords and ConfigManager.target_rgbs
    config_file,             \* simple_mode of the saved configuration file, None without a file
    last_click,              \* history: the last click the setup handler received
    current_mode,            \* MouseHandler.current_mode
    setups,                  \* calls of run_setup_mode made so far
    setup_complete,          \* SetupManager.setup_complete
    setup_cancelled,         \* SetupManager.setup_cancelled
    setup_pc,                \* where the thread that called run_setup_mode is
    cancel_requested,        \* history: cancel_setup was called for this session
    stop_automation,         \* KeyboardHandler.stop_automation
    key_pc,                  \* position of the listener thread inside on_press
    cli_pc,                  \* position of the main thread inside _run_automation_mode
    pressedInRun,            \* history: the stop key was pressed during the current call
    cyclesAtPress,           \* history: loop iterations entered when it was pressed
    px_pc,                   \* position inside a call of get_pixel_color
    px_at,                   \* its arguments (x, y)
    px_image,                \* local screenshot of that call
    px_region,               \* locals (region_x, region_y)
    px_result                \* what the call returned

\* The arguments of the call, the engine's fields, the locals of the loop
\* and the history of stop requests.
args == <<click_coords, target_rgbs>>
tracker == <<sacrifice_count, tracking>>
locals == <<current_colors, slot_index, current_sacrifice_color>>
stops == <<stopIssued, stopInCycle, countAtStop>>

counters == <<clicksInRun, dragsInRun>>

\* The variables of run_automation and of the threads that stop it.
engine == <<pc, args, stop_callback, is_running, tracker, locals, events, cycles, runs,
            last_result, stops, countAtEntry>>

\* The variables of the GUI, of a call of colors_match and of a call of
\* get_multiple_pixel_colors.
gui == <<is_automation_running, worker, after_queue, keyboard_listener, stoppedInDelay,
         cycled>>
matcher == <<match_pc, match_args, match_result>>
sampler == <<batch_coordinates, batch_screen, batch_pc, screenshot, grabs, batch_colors,
             batch_result>>

\* The variables of the replayed run, of setup mode with the configuration
\* manager, and of the command-line application.
twin == <<tape, tape_pos, trace, first>>
session == <<setup_complete, setup_cancelled, setup_pc, cancel_requested>>
setup == <<setup_state, MAX_ZODIAC_SLOTS, config_manager, config_file, last_click,
           current_mode, setups, session>>
cli == <<stop_automation, key_pc, cli_pc, pressedInRun, cyclesAtPress>>
single == <<px_pc, px_at, px_image, px_region, px_result>>
extras == <<twin, setup, cli, single>>

vars == <<engine, failure, counters, gui, matcher, sampler, extras>>

----------------------------------------------------------------------------
\* Bounds of the model.
MaxCycles == 2
MaxRuns == 2
MaxFairCycles == 2
MaxFairRuns == 1
MaxWorkers == 2
MaxQueue == 2
MaxCoordinates == 2

\* The automation threads the GUI can start.
Workers == 1..MaxWorkers

\* config/settings.py: default colour tolerance.
COLOR_TOLERANCE == 15

None == <<>>
NoCoord == <<>>
EmptyDict == [k \in {} |-> 0]

\* The hardcoded sacrifice-button colours of setup and of loading.
SetupButtonRgb == <<219, 124, 0>>
LoadedButtonRgb == <<217, 123, 0>>

\* What the screen can show at a sampled coordinate.
ScreenColors == {<<100, 100, 100>>, <<219, 124, 0>>}
Samples == ScreenColors \cup {None}

----------------------------------------------------------------------------
\* Configurations that setup, loading or the GUI can hand to run_automation.
Configs == <<
    \* nothing configured (ConfigManager before any setup)
    [click_coords |-> EmptyDict, target_rgbs |-> EmptyDict],
    \* a required coordinate entry missing
    [click_coords |-> [zodiac_slots |-> << <<10, 10>> >>, sacrifice_button |-> <<200, 200>>],
     target_rgbs  |-> [zodiac_slots |-> << <<100, 100, 100>> >>, sacrifice_button |-> LoadedButtonRgb]],
    \* zero slots
    [click_coords |-> [zodiac_slots |-> <<>>, sacrifice_box |-> <<50, 50>>,
                       sacrifice_button |-> <<200, 200>>],
     target_rgbs  |-> [zodiac_slots |-> <<>>, sacrifice_button |-> SetupButtonRgb]],
    \* one slot, as completed by setup
    [click_coords |-> [zodiac_slots |-> << <<10, 10>> >>, sacrifice_box |-> <<50, 50>>,
                       sacrifice_button |-> <<200, 200>>],
     target_rgbs  |-> [zodiac_slots |-> << <<100, 100, 100>> >>, sacrifice_button |-> SetupButtonRgb]],
    \* two slots, loaded again by the configuration manager
    [click_coords |-> [zodiac_slots |-> << <<10, 10>>, <<20, 10>> >>, sacrifice_box |-> <<50, 50>>,
                       sacrifice_button |-> <<200, 200>>],
     target_rgbs  |-> [zodiac_slots |-> << <<100, 100, 100>>, <<110, 95, 105>> >>,
                       sacrifice_button |-> LoadedButtonRgb]],
    \* one slot whose colour capture failed during setup
    [click_coords |-> [zodiac_slots |-> << <<10, 10>> >>, sacrifice_box |-> <<50, 50>>,
                       sacrifice_button |-> <<200, 200>>],
     target_rgbs  |-> [zodiac_slots |-> << None >>, sacrifice_button |-> SetupButtonRgb]],
    \* slot coordinate and colour lists of different length
    [click_coords |-> [zodiac_slots |-> << <<10, 10>>, <<20, 10>> >>, sacrifice_box |-> <<50, 50>>,
                       sacrifice_button |-> <<200, 200>>],
     target_rgbs  |-> [zodiac_slots |-> << <<100, 100, 100>> >>, sacrifice_button |-> LoadedButtonRgb]],
    \* fewer slot coordinates than slot colours
    [click_coords |-> [zodiac_slots |-> << <<10, 10>> >>, sacrifice_box |-> <<50, 50>>,
                       sacrifice_button |-> <<200, 200>>],
     target_rgbs  |-> [zodiac_slots |-> << <<100, 100, 100>>, <<110, 95, 105>> >>,
                       sacrifice_button |-> SetupButtonRgb]]
>>

----------------------------------------------------------------------------
\* utils.color_utils
Abs(x) == IF x < 0 THEN -x ELSE x

Min(a, b) == IF a < b THEN a ELSE b

\* colors_match as it would be if lines 135-136 took an absent colour for a
\* match.
colors_match_NoneMatches(color1, color2, tolerance) ==
    IF color1 = None \/ color2 = None
    THEN TRUE
    ELSE \A i \in 1..Min(Len(color1), Len(color2)) :
             Abs(color1[i] - color2[i]) <= tolerance

\* colors_match as it would be with < in place of <= at line 139.
colors_match_Strict(color1, color2, tolerance) ==
    IF color1 = None \/ color2 = None
    THEN FALSE
    ELSE \A i \in 1..Min(Len(color1), Len(color2)) :
             Abs(color1[i] - color2[i]) < tolerance

\* colors_match as it would be with any() in place of all() at line 139.
colors_match_AnyChannel(color1, color2, tolerance) ==
    IF color1 = None \/ color2 = None
    THEN FALSE
    ELSE \E i \in 1..Min(Len(color1), Len(color2)) :
             Abs(color1[i] - color2[i]) <= tolerance

\* colors_match as it would be without abs() at line 139.
colors_match_Signed(color1, color2, tolerance) ==
    IF color1 = None \/ color2 = None
    THEN FALSE
    ELSE \A i \in 1..Min(Len(color1), Len(color2)) :
             color1[i] - color2[i] <= tolerance

colors_match(color1, color2, tolerance) ==
    IF color1 = None \/ color2 = None
    THEN FALSE
    ELSE \A i \in 1..Min(Len(color1), Len(color2)) :
             Abs(color1[i] - color2[i]) <= tolerance

\* What get_multiple_pixel_colors can return for a list of coordinates: a
\* list of the same length, each entry a colour or None.
get_multiple_pixel_colors(coordinates) == [1..Len(coordinates) -> Samples]

\* What get_pixel_color can return: a colour or None.
get_pixel_color == Samples

----------------------------------------------------------------------------
\* _validate_config as it would be without the check of lines 129-136.
_validate_config_KeysOnly(cc, rgbs) ==
    /\ {"zodiac_slots", "sacrifice_box", "sacrifice_button"} \subseteq DOMAIN cc
    /\ {"zodiac_slots", "sacrifice_button"} \subseteq DOMAIN rgbs

\* AutomationEngine._validate_config
_validate_config(cc, rgbs) ==
    /\ {"zodiac_slots", "sacrifice_box", "sacrifice_button"} \subseteq DOMAIN cc
    /\ {"zodiac_slots", "sacrifice_button"} \subseteq DOMAIN rgbs
    /\ cc["zodiac_slots"] # <<>>
    /\ rgbs["zodiac_slots"] # <<>>

\* One entry of the event log: the operation, the coordinate it was given and,
\* for a sample, what it returned.
Event(op, at, got) == [op |-> op, at |-> at, got |-> got]

\* The engine before the first call of run_automation.
EngineInit ==
    /\ pc = "idle"
    /\ click_coords = EmptyDict
    /\ target_rgbs = EmptyDict
    /\ stop_callback = "None"
    /\ is_running = FALSE
    /\ sacrifice_count = 0
    /\ tracking = FALSE
    /\ current_colors = <<>>
    /\ slot_index = 0
    /\ current_sacrifice_color = None
    /\ events = <<>>
    /\ cycles = 0
    /\ runs = 0
    /\ last_result = "none"
    /\ stopIssued = FALSE
    /\ stopInCycle = FALSE
    /\ countAtEntry = 0
    /\ countAtStop = 0
    /\ failure = "none"
    /\ clicksInRun = 0
    /\ dragsInRun = 0

\* No GUI thread started, no call of colors_match or of
\* get_multiple_pixel_colors made.
GuiIdle ==
    /\ is_automation_running = FALSE
    /\ worker = [w \in Workers |-> "unstarted"]
    /\ after_queue = <<>>
    /\ keyboard_listener = FALSE
    /\ stoppedInDelay = {}
    /\ cycled = {}

MatcherIdle ==
    /\ match_pc = "idle"
    /\ match_args = [color1 |-> None, color2 |-> None, tolerance |-> 0]
    /\ match_result = FALSE

SamplerIdle ==
    /\ batch_coordinates = <<>>
    /\ batch_screen = None
    /\ batch_pc = "idle"
    /\ screenshot = None
    /\ grabs = 0
    /\ batch_colors = <<>>
    /\ batch_result = None

\* No run recorded.
TwinIdle ==
    /\ tape = <<>>
    /\ tape_pos = 0
    /\ trace = <<>>
    /\ first = [click_coords |-> EmptyDict, target_rgbs |-> EmptyDict, trace |-> <<>>,
                sacrifice_count |-> 0]

\* SetupState.__init__ and ConfigManager.__init__ without a configuration file.
SetupIdle ==
    /\ setup_state = [current_step |-> "zodiac_slots", zodiac_slot_count |-> 0,
                      click_coords |-> EmptyDict, target_rgbs |-> EmptyDict]
    /\ MAX_ZODIAC_SLOTS = -1
    /\ config_manager = [click_coords |-> EmptyDict, target_rgbs |-> EmptyDict]
    /\ config_file = None
    /\ last_click = [button |-> "none", inside |-> FALSE, tick |-> 0]
    /\ current_mode = "None"
    /\ setups = 0
    /\ setup_complete = FALSE
    /\ setup_cancelled = FALSE
    /\ setup_pc = "idle"
    /\ cancel_requested = FALSE

\* KeyboardHandler.__init__, the main thread in the menu.
CliIdle ==
    /\ stop_automation = FALSE
    /\ key_pc = "idle"
    /\ cli_pc = "menu"
    /\ pressedInRun = FALSE
    /\ cyclesAtPress = 0

\* No call of get_pixel_color.
SingleIdle ==
    /\ px_pc = "idle"
    /\ px_at = <<0, 0>>
    /\ px_image = [origin |-> <<0, 0>>, size |-> <<0, 0>>]
    /\ px_region = <<0, 0>>
    /\ px_result = None

ExtrasIdle == TwinIdle /\ SetupIdle /\ CliIdle /\ SingleIdle

Init == EngineInit /\ GuiIdle /\ MatcherIdle /\ SamplerIdle /\ ExtrasIdle

----------------------------------------------------------------------------
\* Positions of the engine thread inside the body of one loop iteration.
CycleBody == {"sleep", "none_check", "slots", "drag_move", "drag_press", "drag_move2",
              "drag_release", "confirm_sample", "confirm_check", "click_move", "click",
              "count"}

Log(op, at, got) == events' = Append(events, Event(op, at, got))

\* zodiac_colors = current_colors[:-1]
zodiac_colors == SubSeq(current_colors, 1, Len(current_colors) - 1)

\* The number of pairs zip(zodiac_colors, target_colors) yields.
ZipLen == Min(Len(zodiac_colors), Len(target_rgbs["zodiac_slots"]))

\* History of a stop request that arrives while the loop body is executing.
NoteStopRequest ==
    /\ stopInCycle' = (stopInCycle \/ pc \in CycleBody)
    /\ countAtStop' = IF ~stopInCycle /\ pc \in CycleBody THEN sacrifice_count
                      ELSE countAtStop

\* run_automation returns: its arguments and locals are gone.
Return ==
    /\ pc' = "idle"
    /\ click_coords' = EmptyDict
    /\ target_rgbs' = EmptyDict
    /\ stop_callback' = "None"
    /\ current_colors' = <<>>
    /\ slot_index' = 0
    /\ current_sacrifice_color' = None

\* A caller invokes run_automation(click_coords, target_rgbs, stop_callback).
RunAutomation ==
    /\ pc = "idle"
    /\ runs < MaxRuns
    /\ \E i \in DOMAIN Configs :
          /\ click_coords' = Configs[i].click_coords
          /\ target_rgbs' = Configs[i].target_rgbs
    /\ stop_callback' \in {"None", "false", "true"}
    /\ pc' = "validate"
    /\ runs' = runs + 1
    /\ events' = <<>>
    /\ cycles' = 0
    /\ stopIssued' = FALSE
    /\ stopInCycle' = FALSE
    /\ countAtStop' = 0
    /\ countAtEntry' = sacrifice_count
    /\ UNCHANGED <<is_running, tracker, locals, last_result>>

\* run_automation as it would be if the initialisation of lines 54-55
\* preceded the validation.
Validate_AfterInit ==
    /\ pc = "validate"
    /\ IF _validate_config(click_coords, target_rgbs)
       THEN /\ pc' = "init"
            /\ UNCHANGED <<args, stop_callback, locals, last_result, is_running, tracker>>
       ELSE /\ Return
            /\ last_result' = "config_error"
            /\ is_running' = TRUE
            /\ sacrifice_count' = 0
            /\ tracking' = TRUE
    /\ UNCHANGED <<events, cycles, runs, stops, countAtEntry>>

\* run_automation, lines 49-51.
Validate ==
    /\ pc = "validate"
    /\ IF _validate_config(click_coords, target_rgbs)
       THEN pc' = "init" /\ UNCHANGED <<args, stop_callback, locals, last_result>>
       ELSE Return /\ last_result' = "config_error"
    /\ UNCHANGED <<is_running, tracker, events, cycles, runs, stops, countAtEntry>>

\* start_tracking as it would be without the reset of line 46.
start_tracking_NoReset ==
    /\ sacrifice_count' = sacrifice_count
    /\ tracking' = TRUE

\* PerformanceTracker.start_tracking
start_tracking ==
    /\ sacrifice_count' = 0
    /\ tracking' = TRUE

\* run_automation, lines 53-65: is_running = True, start_tracking().
Initialize ==
    /\ pc = "init"
    /\ is_running' = TRUE
    /\ start_tracking
    /\ pc' = "check"
    /\ UNCHANGED <<args, stop_callback, locals, events, cycles, runs, last_result, stops,
                   countAtEntry>>

\* The loop condition holds: the body of a new iteration is entered.
EnterCycle ==
    /\ cycles < MaxCycles
    /\ cycles' = cycles + 1
    /\ events' = <<>>
    /\ stopInCycle' = FALSE
    /\ countAtStop' = 0
    /\ pc' = "sleep"

\* CheckRunning as it would be if the loop condition tested the callback only.
CheckRunning_IgnoresFlag ==
    /\ pc = "check"
    /\ IF stop_callback = "None"
       THEN EnterCycle
       ELSE pc' = "check_cb" /\ UNCHANGED <<cycles, events, stopInCycle, countAtStop>>
    /\ UNCHANGED <<args, stop_callback, is_running, tracker, locals, runs, last_result,
                   stopIssued, countAtEntry>>

\* run_automation, line 68, first operand: self.is_running.
CheckRunning ==
    /\ pc = "check"
    /\ IF ~is_running
       THEN pc' = "exit" /\ UNCHANGED <<cycles, events, stopInCycle, countAtStop>>
       ELSE IF stop_callback = "None"
            THEN EnterCycle
            ELSE pc' = "check_cb" /\ UNCHANGED <<cycles, events, stopInCycle, countAtStop>>
    /\ UNCHANGED <<args, stop_callback, is_running, tracker, locals, runs, last_result,
                   stopIssued, countAtEntry>>

\* run_automation, line 68, second operand: not stop_callback().
CheckCallback ==
    /\ pc = "check_cb"
    /\ IF stop_callback = "true"
       THEN pc' = "exit" /\ UNCHANGED <<cycles, events, stopInCycle, countAtStop>>
       ELSE EnterCycle
    /\ UNCHANGED <<args, stop_callback, is_running, tracker, locals, runs, last_result,
                   stopIssued, countAtEntry>>

\* Sample as it would be if lines 73-75 appended the button coordinate to
\* the configured slot list instead of building a new list.
Sample_ExtendsInPlace ==
    /\ pc = "sleep"
    /\ click_coords' = [click_coords EXCEPT !["zodiac_slots"] =
                            Append(@, click_coords["sacrifice_button"])]
    /\ current_colors' \in get_multiple_pixel_colors(click_coords'["zodiac_slots"])
    /\ Log("sample_batch", NoCoord, current_colors')
    /\ pc' = "none_check"
    /\ UNCHANGED <<target_rgbs, stop_callback, is_running, tracker, slot_index,
                   current_sacrifice_color, cycles, runs, last_result, stops, countAtEntry>>

\* run_automation, lines 69-76: sleep, then one batch sample of all slots
\* and the sacrifice button.
Sample ==
    /\ pc = "sleep"
    /\ current_colors' \in get_multiple_pixel_colors(
           Append(click_coords["zodiac_slots"], click_coords["sacrifice_button"]))
    /\ Log("sample_batch", NoCoord, current_colors')
    /\ pc' = "none_check"
    /\ UNCHANGED <<args, stop_callback, is_running, tracker, slot_index,
                   current_sacrifice_color, cycles, runs, last_result, stops, countAtEntry>>

\* None in colors
HasNone(sampled) == \E i \in DOMAIN sampled : sampled[i] = None

\* NoneCheck as it would be with the test of lines 85-86 alone, which looks
\* at the slot colours and not at the colour of the sacrifice button.
NoneCheck_SlotsOnly ==
    /\ pc = "none_check"
    /\ IF HasNone(zodiac_colors)
       THEN pc' = "check" /\ UNCHANGED slot_index
       ELSE pc' = "slots" /\ slot_index' = 0
    /\ UNCHANGED <<args, stop_callback, is_running, tracker, current_colors,
                   current_sacrifice_color, events, cycles, runs, last_result, stops,
                   countAtEntry>>

\* run_automation, lines 78-89: skip the iteration if a sample failed, else
\* call _check_zodiac_slots.
NoneCheck ==
    /\ pc = "none_check"
    /\ IF HasNone(current_colors)
       THEN pc' = "check" /\ UNCHANGED slot_index
       ELSE pc' = "slots" /\ slot_index' = 0
    /\ UNCHANGED <<args, stop_callback, is_running, tracker, current_colors,
                   current_sacrifice_color, events, cycles, runs, last_result, stops,
                   countAtEntry>>

\* CheckSlot as it would be if a slot that does not match were evaluated
\* again instead of the next one.
CheckSlot_NoAdvance ==
    /\ pc = "slots"
    /\ IF slot_index >= ZipLen
       THEN pc' = "check" /\ UNCHANGED slot_index
       ELSE IF colors_match(zodiac_colors[slot_index + 1],
                            target_rgbs["zodiac_slots"][slot_index + 1], COLOR_TOLERANCE)
            THEN pc' = "drag_move" /\ UNCHANGED slot_index
            ELSE pc' = "slots" /\ UNCHANGED slot_index
    /\ UNCHANGED <<args, stop_callback, is_running, tracker, current_colors,
                   current_sacrifice_color, events, cycles, runs, last_result, stops,
                   countAtEntry>>

\* CheckSlot as it would be if any of the remaining matching slots could be
\* chosen instead of the first one.
CheckSlot_AnyMatching ==
    /\ pc = "slots"
    /\ LET matching == {k \in slot_index..(ZipLen - 1) :
                           colors_match(zodiac_colors[k + 1],
                                        target_rgbs["zodiac_slots"][k + 1], COLOR_TOLERANCE)}
       IN  IF matching = {}
           THEN pc' = "check" /\ UNCHANGED slot_index
           ELSE pc' = "drag_move" /\ slot_index' \in matching
    /\ UNCHANGED <<args, stop_callback, is_running, tracker, current_colors,
                   current_sacrifice_color, events, cycles, runs, last_result, stops,
                   countAtEntry>>

\* _check_zodiac_slots, lines 153-171: one step of the loop over
\* zip(zodiac_colors, target_colors).
CheckSlot ==
    /\ pc = "slots"
    /\ IF slot_index >= ZipLen
       THEN pc' = "check" /\ UNCHANGED slot_index
       ELSE IF colors_match(zodiac_colors[slot_index + 1],
                            target_rgbs["zodiac_slots"][slot_index + 1], COLOR_TOLERANCE)
            THEN pc' = "drag_move" /\ UNCHANGED slot_index
            ELSE pc' = "slots" /\ slot_index' = slot_index + 1
    /\ UNCHANGED <<args, stop_callback, is_running, tracker, current_colors,
                   current_sacrifice_color, events, cycles, runs, last_result, stops,
                   countAtEntry>>

\* The engine issues one mouse event and moves on; nothing else changes.
MouseStep(from, op, at, to) ==
    /\ pc = from
    /\ Log(op, at, None)
    /\ pc' = to
    /\ UNCHANGED <<args, stop_callback, is_running, tracker, locals, cycles, runs,
                   last_result, stops, countAtEntry>>

\* DragMove as it would be if the drag always started at the first slot.
DragMove_FirstSlot ==
    MouseStep("drag_move", "moveTo", click_coords["zodiac_slots"][1], "drag_press")

\* _perform_sacrifice_action line 198 and _drag_zodiac_to_sacrifice_box line 239.
DragMove ==
    MouseStep("drag_move", "moveTo", click_coords["zodiac_slots"][slot_index + 1],
              "drag_press")

\* _drag_zodiac_to_sacrifice_box, lines 240-241.
DragPress == MouseStep("drag_press", "press", NoCoord, "drag_move2")

\* DragMove2 as it would be if the drag went to the sacrifice button.
DragMove2_ToButton ==
    MouseStep("drag_move2", "moveTo", click_coords["sacrifice_button"], "drag_release")

\* _drag_zodiac_to_sacrifice_box, lines 242-243.
DragMove2 ==
    MouseStep("drag_move2", "moveTo", click_coords["sacrifice_box"], "drag_release")

\* _drag_zodiac_to_sacrifice_box, line 244.
DragRelease == MouseStep("drag_release", "release", NoCoord, "confirm_sample")

\* _perform_sacrifice_action, lines 207-213: wait, then sample the button alone.
ConfirmSample ==
    /\ pc = "confirm_sample"
    /\ current_sacrifice_color' \in get_pixel_color
    /\ Log("sample_one", click_coords["sacrifice_button"], current_sacrifice_color')
    /\ pc' = "confirm_check"
    /\ UNCHANGED <<args, stop_callback, is_running, tracker, current_colors, slot_index,
                   cycles, runs, last_result, stops, countAtEntry>>

\* ConfirmCheck as it would be if a failed confirm ended the iteration like
\* a successful one (return True in both branches).
ConfirmCheck_EndsCycle ==
    /\ pc = "confirm_check"
    /\ IF colors_match(current_sacrifice_color, target_rgbs["sacrifice_button"],
                       COLOR_TOLERANCE)
       THEN pc' = "click_move"
       ELSE pc' = "check"
    /\ UNCHANGED <<args, stop_callback, is_running, tracker, locals, events, cycles, runs,
                   last_result, stops, countAtEntry>>

\* ConfirmCheck as it would be if it compared the button colour of the
\* cycle's batch sample instead of the fresh sample.
ConfirmCheck_UsesBatch ==
    /\ pc = "confirm_check"
    /\ IF colors_match(current_colors[Len(current_colors)],
                       target_rgbs["sacrifice_button"], COLOR_TOLERANCE)
       THEN pc' = "click_move" /\ UNCHANGED slot_index
       ELSE pc' = "slots" /\ slot_index' = slot_index + 1
    /\ UNCHANGED <<args, stop_callback, is_running, tracker, current_colors,
                   current_sacrifice_color, events, cycles, runs, last_result, stops,
                   countAtEntry>>

\* _perform_sacrifice_action, line 215, and on a mismatch lines 227-233 with
\* the return to the loop of _check_zodiac_slots.
ConfirmCheck ==
    /\ pc = "confirm_check"
    /\ IF colors_match(current_sacrifice_color, target_rgbs["sacrifice_button"],
                       COLOR_TOLERANCE)
       THEN pc' = "click_move" /\ UNCHANGED slot_index
       ELSE pc' = "slots" /\ slot_index' = slot_index + 1
    /\ UNCHANGED <<args, stop_callback, is_running, tracker, current_colors,
                   current_sacrifice_color, events, cycles, runs, last_result, stops,
                   countAtEntry>>

\* _click_sacrifice_button, line 253.
ClickMove == MouseStep("click_move", "moveTo", click_coords["sacrifice_button"], "click")

\* _click_sacrifice_button, lines 254-255.
Click == MouseStep("click", "click", NoCoord, "count")

\* increment_sacrifice_count as it would be if the counter were not written back.
increment_sacrifice_count_Lost == sacrifice_count' = sacrifice_count

\* PerformanceTracker.increment_sacrifice_count
increment_sacrifice_count == sacrifice_count' = sacrifice_count + 1

\* Count as it would be if _check_zodiac_slots ignored the True returned by
\* _perform_sacrifice_action and went on with the next slot.
Count_KeepsChecking ==
    /\ pc = "count"
    /\ increment_sacrifice_count
    /\ pc' = "slots"
    /\ slot_index' = slot_index + 1
    /\ UNCHANGED <<args, stop_callback, is_running, tracking, current_colors,
                   current_sacrifice_color, events, cycles, runs, last_result, stops,
                   countAtEntry>>

\* _perform_sacrifice_action, lines 217-225: increment_sacrifice_count(); the
\* True returned ends _check_zodiac_slots and the iteration.
Count ==
    /\ pc = "count"
    /\ increment_sacrifice_count
    /\ pc' = "check"
    /\ UNCHANGED <<args, stop_callback, is_running, tracking, locals, events, cycles, runs,
                   last_result, stops, countAtEntry>>

\* run_automation, lines 101-110: the loop has ended.
Exit ==
    /\ pc = "exit"
    /\ is_running' = FALSE
    /\ Return
    /\ last_result' = "completed"
    /\ events' = <<>>
    /\ UNCHANGED <<tracker, cycles, runs, stops, countAtEntry>>

\* AutomationEngine.stop(), called from another thread at any time.
Stop ==
    /\ is_running' = FALSE
    /\ stopIssued' = (stopIssued \/ pc # "idle")
    /\ NoteStopRequest
    /\ UNCHANGED <<pc, args, stop_callback, tracker, locals, events, cycles, runs,
                   last_result, countAtEntry>>

\* The stop callback starts returning true (it then keeps doing so).
ShouldStop ==
    /\ pc # "idle"
    /\ stop_callback = "false"
    /\ stop_callback' = "true"
    /\ NoteStopRequest
    /\ UNCHANGED <<pc, args, is_running, tracker, locals, events, cycles, runs,
                   last_result, stopIssued, countAtEntry>>

\* One statement of the engine thread.
Engine ==
    \/ Validate \/ Initialize \/ CheckRunning \/ CheckCallback \/ Sample \/ NoneCheck
    \/ CheckSlot \/ DragMove \/ DragPress \/ DragMove2 \/ DragRelease \/ ConfirmSample
    \/ ConfirmCheck \/ ClickMove \/ Click \/ Count \/ Exit

\* Under Spec no exception is raised, and the history counters are not kept.
Quiet == UNCHANGED <<failure, counters, gui, matcher, sampler, extras>>

Next ==
    \/ RunAutomation /\ Quiet
    \/ Validate /\ Quiet
    \/ Initialize /\ Quiet
    \/ CheckRunning /\ Quiet
    \/ CheckCallback /\ Quiet
    \/ Sample /\ Quiet
    \/ NoneCheck /\ Quiet
    \/ CheckSlot /\ Quiet
    \/ DragMove /\ Quiet
    \/ DragPress /\ Quiet
    \/ DragMove2 /\ Quiet
    \/ DragRelease /\ Quiet
    \/ ConfirmSample /\ Quiet
    \/ ConfirmCheck /\ Quiet
    \/ ClickMove /\ Quiet
    \/ Click /\ Quiet
    \/ Count /\ Quiet
    \/ Exit /\ Quiet
    \/ Stop /\ Quiet
    \/ ShouldStop /\ Quiet

Spec == Init /\ [][Next]_vars

\* The engine thread is scheduled as long as it has a statement to execute.
\* Termination is checked over fewer calls and cycles than the safety claims.
FairNext ==
    \/ RunAutomation /\ runs' <= MaxFairRuns /\ Quiet
    \/ Engine /\ cycles' <= MaxFairCycles /\ Quiet
    \/ Stop /\ Quiet
    \/ ShouldStop /\ Quiet

FairSpec == Init /\ [][FairNext]_vars /\ WF_vars(Engine /\ Quiet)

----------------------------------------------------------------------------
\* The collaborator may refuse an event: the assignment to mouse.position,
\* press, release or click raises instead of acting.
MouseSteps == {"drag_move", "drag_press", "drag_move2", "drag_release", "click_move",
               "click"}

\* run_automation, lines 97-99: an OSError, IndexError or ValueError raised
\* inside the try block is caught, reported at debug level, and the loop
\* continues with its condition.
RaiseCaught ==
    /\ pc \in MouseSteps
    /\ Log("raise", NoCoord, None)
    /\ failure' = "swallowed"
    /\ pc' = "check"
    /\ UNCHANGED <<args, stop_callback, is_running, tracker, locals, cycles, runs,
                   last_result, stops, countAtEntry, counters, gui, matcher, sampler,
                   extras>>

\* An exception of any other type has no handler in run_automation: the call
\* ends with the exception, and line 110 is not executed.
RaiseOther ==
    /\ pc \in MouseSteps
    /\ failure' = "propagated"
    /\ Return
    /\ last_result' = "raised"
    /\ events' = <<>>
    /\ UNCHANGED <<is_running, tracker, cycles, runs, stops, countAtEntry, counters, gui,
                   matcher, sampler, extras>>

\* A new call starts with no exception raised.
NoFailureYet == failure' = "none" /\ UNCHANGED <<counters, gui, matcher, sampler, extras>>

FaultNext ==
    \/ RunAutomation /\ NoFailureYet
    \/ Validate /\ Quiet
    \/ Initialize /\ Quiet
    \/ CheckRunning /\ Quiet
    \/ CheckCallback /\ Quiet
    \/ Sample /\ Quiet
    \/ NoneCheck /\ Quiet
    \/ CheckSlot /\ Quiet
    \/ DragMove /\ Quiet
    \/ DragPress /\ Quiet
    \/ DragMove2 /\ Quiet
    \/ DragRelease /\ Quiet
    \/ ConfirmSample /\ Quiet
    \/ ConfirmCheck /\ Quiet
    \/ ClickMove /\ Quiet
    \/ Click /\ Quiet
    \/ Count /\ Quiet
    \/ Exit /\ Quiet
    \/ Stop /\ Quiet
    \/ ShouldStop /\ Quiet
    \/ RaiseCaught
    \/ RaiseOther

SpecFault == Init /\ [][FaultNext]_vars

----------------------------------------------------------------------------
\* Whether the step appends the event op to the log of the cycle.
Issued(op) ==
    IF Len(events') > Len(events) /\ events'[Len(events')].op = op THEN 1 ELSE 0

\* The history counters: set to zero where the run is initialized and when
\* the call returns, and advanced by the presses and clicks the step issues.
Tally ==
    /\ clicksInRun' = IF pc = "init" \/ pc' = "idle" THEN 0
                       ELSE clicksInRun + Issued("click")
    /\ dragsInRun' = IF pc = "init" \/ pc' = "idle" THEN 0
                      ELSE dragsInRun + Issued("press")
    /\ UNCHANGED <<failure, gui, matcher, sampler, extras>>

CountNext ==
    \/ RunAutomation /\ Tally
    \/ Validate /\ Tally
    \/ Initialize /\ Tally
    \/ CheckRunning /\ Tally
    \/ CheckCallback /\ Tally
    \/ Sample /\ Tally
    \/ NoneCheck /\ Tally
    \/ CheckSlot /\ Tally
    \/ DragMove /\ Tally
    \/ DragPress /\ Tally
    \/ DragMove2 /\ Tally
    \/ DragRelease /\ Tally
    \/ ConfirmSample /\ Tally
    \/ ConfirmCheck /\ Tally
    \/ ClickMove /\ Tally
    \/ Click /\ Tally
    \/ Count /\ Tally
    \/ Exit /\ Tally
    \/ Stop /\ Tally
    \/ ShouldStop /\ Tally

CountSpec == Init /\ [][CountNext]_vars

----------------------------------------------------------------------------
\* The GUI (src/src/gui/app.py).  The main loop runs the button handler and
\* the callbacks handed to root.after one at a time; every automation thread
\* it starts runs _run_automation_thread on the one AutomationEngine, with
\* the configuration the start button was enabled for.
GuiFrame ==
    UNCHANGED <<pc, args, stop_callback, tracker, locals, events, cycles, runs, last_result,
                stops, countAtEntry, failure, counters, matcher, sampler, extras>>

\* The positions of a thread inside the loop of run_automation.
InEngineLoop == {"check", "check_cb", "body", "exit"}

\* RevolutionIdleGUI._start_automation, lines 732-749: set the flag, start
\* the keyboard listener and a new thread.
_start_automation ==
    /\ ~is_automation_running
    /\ \E w \in Workers :
          /\ worker[w] = "unstarted"
          /\ \A v \in Workers : v < w => worker[v] # "unstarted"
          /\ worker' = [worker EXCEPT ![w] = "delay"]
    /\ is_automation_running' = TRUE
    /\ keyboard_listener' = TRUE
    /\ stoppedInDelay' = {}
    /\ UNCHANGED <<after_queue, is_running, cycled>>

\* RevolutionIdleGUI._stop_automation, lines 774-781.
_stop_automation ==
    /\ is_automation_running' = FALSE
    /\ stoppedInDelay' = stoppedInDelay \cup {w \in Workers : worker[w] = "delay"}
    /\ UNCHANGED <<worker, after_queue, keyboard_listener, is_running, cycled>>

\* RevolutionIdleGUI._on_automation_click: the automation button is clicked.
_on_automation_click ==
    /\ IF is_automation_running THEN _stop_automation ELSE _start_automation
    /\ GuiFrame

\* KeyboardHandler.on_press with the stop key, then
\* RevolutionIdleGUI._on_stop_automation, lines 783-786.
_on_stop_automation ==
    /\ keyboard_listener
    /\ is_automation_running
    /\ Len(after_queue) < MaxQueue
    /\ after_queue' = Append(after_queue, "_on_keyboard_stop_automation")
    /\ UNCHANGED <<is_automation_running, worker, keyboard_listener, is_running,
                   stoppedInDelay, cycled>>
    /\ GuiFrame

\* The main loop runs the next callback: _on_automation_stopped (lines
\* 793-799) or _on_keyboard_stop_automation (lines 788-791), which calls
\* _stop_automation.
RunAfter ==
    /\ after_queue # <<>>
    /\ after_queue' = Tail(after_queue)
    /\ is_automation_running' = FALSE
    /\ keyboard_listener' = IF Head(after_queue) = "_on_automation_stopped" THEN FALSE
                            ELSE keyboard_listener
    /\ stoppedInDelay' = IF Head(after_queue) = "_on_automation_stopped" THEN stoppedInDelay
                         ELSE stoppedInDelay \cup {w \in Workers : worker[w] = "delay"}
    /\ UNCHANGED <<worker, is_running, cycled>>
    /\ GuiFrame

\* One statement of the automation thread w that takes it from one
\* position to another and touches nothing of the GUI.
ThreadStep(w, from, to) ==
    /\ worker[w] = from
    /\ worker' = [worker EXCEPT ![w] = to]
    /\ cycled' = IF to = "body" THEN cycled \cup {w} ELSE cycled
    /\ UNCHANGED <<is_automation_running, after_queue, keyboard_listener, stoppedInDelay>>
    /\ GuiFrame

\* _run_automation_thread, line 759: time.sleep(3) is over.
ThreadSleep(w) == ThreadStep(w, "delay", "call") /\ UNCHANGED is_running

\* _run_automation_thread, line 760, and run_automation, lines 49-65.
ThreadCall(w) == ThreadStep(w, "call", "check") /\ is_running' = TRUE

\* run_automation, line 68, first operand.
ThreadCheckRunning(w) ==
    /\ ThreadStep(w, "check", IF is_running THEN "check_cb" ELSE "exit")
    /\ UNCHANGED is_running

\* The second operand as it would be with a callback that never asks to
\* stop.
ThreadCheckCallback_NeverStops(w) ==
    /\ ThreadStep(w, "check_cb", "body")
    /\ UNCHANGED is_running

\* run_automation, line 68, second operand, with the stop_callback of
\* _run_automation_thread, lines 755-756: not self.is_automation_running.
ThreadCheckCallback(w) ==
    /\ ThreadStep(w, "check_cb", IF is_automation_running THEN "body" ELSE "exit")
    /\ UNCHANGED is_running

\* run_automation, lines 69-99: the body of one iteration.
ThreadCycle(w) == ThreadStep(w, "body", "check") /\ UNCHANGED is_running

\* run_automation, lines 101-110, and _run_automation_thread, lines 766-768.
ThreadExit(w) ==
    /\ worker[w] = "exit"
    /\ worker' = [worker EXCEPT ![w] = "finished"]
    /\ is_running' = FALSE
    /\ after_queue' = Append(after_queue, "_on_automation_stopped")
    /\ UNCHANGED <<is_automation_running, keyboard_listener, stoppedInDelay, cycled>>
    /\ GuiFrame

GuiNext ==
    \/ _on_automation_click
    \/ _on_stop_automation
    \/ RunAfter
    \/ \E w \in Workers : ThreadSleep(w)
    \/ \E w \in Workers : ThreadCall(w)
    \/ \E w \in Workers : ThreadCheckRunning(w)
    \/ \E w \in Workers : ThreadCheckCallback(w)
    \/ \E w \in Workers : ThreadCycle(w)
    \/ \E w \in Workers : ThreadExit(w)

GuiSpec == Init /\ [][GuiNext]_vars

----------------------------------------------------------------------------
\* Calls of colors_match on its own.  The channel values lie at the ends of
\* the range and at distances 1, 15 and 16 from each other; the tolerances
\* are zero, the default and the whole range.
Channels == {0, 100, 115, 116, 255}
Colors == Channels \X Channels \X Channels
Tolerances == {0, COLOR_TOLERANCE, 255}

\* colors_match has been called with some arguments.
MatchCalled ==
    /\ match_pc = "called"
    /\ match_args \in [color1 : Colors \cup {None}, color2 : Colors \cup {None},
                        tolerance : Tolerances]
    /\ match_result = FALSE

\* colors_match, lines 135-139: the call returns.
ColorsMatchReturns ==
    /\ match_pc = "called"
    /\ match_pc' = "returned"
    /\ match_result' = colors_match(match_args.color1, match_args.color2,
                                     match_args.tolerance)
    /\ UNCHANGED <<match_args, engine, failure, counters, gui, sampler, extras>>

MatchInit == EngineInit /\ GuiIdle /\ SamplerIdle /\ ExtrasIdle /\ MatchCalled

MatchSpec == MatchInit /\ [][ColorsMatchReturns]_vars

----------------------------------------------------------------------------
\* Calls of get_multiple_pixel_colors on its own, statement by statement.
\* The display holds a pixel value at each point the configurations use and
\* the background elsewhere; a pixel value is what Image.getpixel returns
\* for it: three channels, four channels (with alpha), or a single number
\* for an image without colour channels; a point the captured image does
\* not cover has no pixel.
Points == {<<10, 10>>, <<20, 10>>, <<200, 200>>}
Background == <<0, 0, 0>>
NoPixel == <<>>
PixelValues == {<<100, 100, 100>>, <<219, 124, 0, 255>>, <<7>>}

\* What the display can be during a call: whether ImageGrab.grab raises an
\* OSError, and the pixel at every point.
Screens == [grab_raises : BOOLEAN, pixel : [Points -> PixelValues \cup {NoPixel}]]

\* The coordinate lists of at most MaxCoordinates entries.
CoordinateLists == UNION {[1..n -> Points] : n \in 0..MaxCoordinates}

\* line 84
padding == 5

MinOf(S) == CHOOSE x \in S : \A y \in S : x <= y
MaxOf(S) == CHOOSE x \in S : \A y \in S : x >= y

\* lines 78-85: the bounding box of the coordinates, padded.
bbox(coordinates) ==
    LET xs == {coordinates[i][1] : i \in DOMAIN coordinates}
        ys == {coordinates[i][2] : i \in DOMAIN coordinates}
    IN  <<MinOf(xs) - padding, MinOf(ys) - padding, MaxOf(xs) + padding, MaxOf(ys) + padding>>

\* ImageGrab.grab(bbox=box): the image of the region, with its size.
grab(box) == [origin |-> <<box[1], box[2]>>, size |-> <<box[3] - box[1], box[4] - box[2]>>]

\* The pixel of the display at point p.
DisplayAt(p) == IF p \in Points THEN batch_screen.pixel[p] ELSE Background

\* image.getpixel((region_x, region_y)): the pixel of the display at that
\* place of the region, or NoPixel (an IndexError) outside the image.
getpixel(image, region_x, region_y) ==
    IF region_x \in 0..(image.size[1] - 1) /\ region_y \in 0..(image.size[2] - 1)
    THEN DisplayAt(<<region_x + image.origin[1], region_y + image.origin[2]>>)
    ELSE NoPixel

\* [None] * len(coordinates)
AllNone(coordinates) == [i \in 1..Len(coordinates) |-> None]

\* get_multiple_pixel_colors has been called with a list and a display.
BatchCalled ==
    /\ batch_coordinates \in CoordinateLists
    /\ batch_screen \in Screens
    /\ batch_pc = "called"
    /\ screenshot = None
    /\ grabs = 0
    /\ batch_colors = <<>>
    /\ batch_result = None

BatchInit == EngineInit /\ GuiIdle /\ MatcherIdle /\ ExtrasIdle /\ BatchCalled

BatchFrame ==
    UNCHANGED <<batch_coordinates, batch_screen, engine, failure, counters, gui, matcher,
                extras>>

\* The call returns value.
BatchReturn(value) ==
    /\ batch_pc' = "returned"
    /\ batch_result' = value

\* BatchStart as it would be if the capture were made before the test of
\* line 74.
BatchStart_GrabsFirst ==
    /\ batch_pc = "called"
    /\ IF batch_coordinates = <<>>
       THEN BatchReturn(<<>>) /\ grabs' = grabs + 1
       ELSE batch_pc' = "grab" /\ UNCHANGED <<batch_result, grabs>>
    /\ UNCHANGED <<screenshot, batch_colors>>
    /\ BatchFrame

\* lines 74-75: an empty list is returned as it is.
BatchStart ==
    /\ batch_pc = "called"
    /\ IF batch_coordinates = <<>>
       THEN BatchReturn(<<>>)
       ELSE batch_pc' = "grab" /\ UNCHANGED batch_result
    /\ UNCHANGED <<screenshot, grabs, batch_colors>>
    /\ BatchFrame

\* lines 78-91 and 107-109: one capture of the bounding box; an OSError
\* makes every entry of the result None.
BatchGrab ==
    /\ batch_pc = "grab"
    /\ grabs' = grabs + 1
    /\ IF batch_screen.grab_raises
       THEN BatchReturn(AllNone(batch_coordinates)) /\ UNCHANGED screenshot
       ELSE /\ screenshot' = grab(bbox(batch_coordinates))
            /\ batch_pc' = "loop"
            /\ UNCHANGED batch_result
    /\ UNCHANGED batch_colors
    /\ BatchFrame

\* BatchReadPixel as it would be if lines 94-95 did not subtract the origin
\* of the region.
BatchReadPixel_NoOffset ==
    /\ batch_pc = "loop"
    /\ Len(batch_colors) < Len(batch_coordinates)
    /\ LET coord == batch_coordinates[Len(batch_colors) + 1]
           pixel_color == getpixel(screenshot, coord[1], coord[2])
       IN  IF pixel_color = NoPixel
           THEN BatchReturn(AllNone(batch_coordinates)) /\ UNCHANGED batch_colors
           ELSE /\ batch_colors' = Append(batch_colors,
                        IF Len(pixel_color) >= 3 THEN SubSeq(pixel_color, 1, 3) ELSE None)
                /\ UNCHANGED <<batch_pc, batch_result>>
    /\ UNCHANGED <<screenshot, grabs>>
    /\ BatchFrame

\* lines 92-104 and 110-112: one iteration of the loop over the
\* coordinates; an IndexError makes every entry of the result None.
BatchReadPixel ==
    /\ batch_pc = "loop"
    /\ Len(batch_colors) < Len(batch_coordinates)
    /\ LET coord == batch_coordinates[Len(batch_colors) + 1]
           region_x == coord[1] - bbox(batch_coordinates)[1]
           region_y == coord[2] - bbox(batch_coordinates)[2]
           pixel_color == getpixel(screenshot, region_x, region_y)
       IN  IF pixel_color = NoPixel
           THEN BatchReturn(AllNone(batch_coordinates)) /\ UNCHANGED batch_colors
           ELSE /\ batch_colors' = Append(batch_colors,
                        IF Len(pixel_color) >= 3 THEN SubSeq(pixel_color, 1, 3) ELSE None)
                /\ UNCHANGED <<batch_pc, batch_result>>
    /\ UNCHANGED <<screenshot, grabs>>
    /\ BatchFrame

\* line 106: return colors.
BatchReturnColors ==
    /\ batch_pc = "loop"
    /\ Len(batch_colors) = Len(batch_coordinates)
    /\ BatchReturn(batch_colors)
    /\ UNCHANGED <<screenshot, grabs, batch_colors>>
    /\ BatchFrame

BatchNext == BatchStart \/ BatchGrab \/ BatchReadPixel \/ BatchReturnColors

BatchSpec == BatchInit /\ [][BatchNext]_vars

----------------------------------------------------------------------------
\* The same call made again with the same samples.  The first call of
\* run_automation is recorded: the samples it draws go to the tape, the
\* mouse events it issues to the trace.  The second call is given the
\* arguments of the first one (the stop callback and the stop requests stay
\* free) and draws its samples from the tape, in order.
MaxReplayCycles == 1

Appended == Len(events') > Len(events)
Last == events'[Len(events')]
IsSample(e) == e.op \in {"sample_batch", "sample_one"}
Drawn == Appended /\ IsSample(Last)

TwinFrame == UNCHANGED <<failure, counters, gui, matcher, sampler, setup, cli, single>>

\* What a step of the engine or of a stopping thread does to the record.
Twin ==
    /\ cycles' <= MaxReplayCycles
    /\ (runs > 1 /\ Drawn) =>
           /\ tape_pos < Len(tape)
           /\ Last.op = tape[tape_pos + 1].op
           /\ Last.got = tape[tape_pos + 1].got
    /\ tape' = IF runs = 1 /\ Drawn THEN Append(tape, [op |-> Last.op, got |-> Last.got])
               ELSE tape
    /\ tape_pos' = IF runs > 1 /\ Drawn THEN tape_pos + 1 ELSE tape_pos
    /\ trace' = IF Appended /\ ~IsSample(Last)
                THEN Append(trace, [op |-> Last.op, at |-> Last.at, slot_index |-> slot_index])
                ELSE trace
    /\ first' = IF runs = 1 /\ pc # "idle" /\ pc' = "idle"
                THEN [first EXCEPT !.trace = trace', !.sacrifice_count = sacrifice_count']
                ELSE first
    /\ TwinFrame

\* The first call is recorded; the second gets the arguments of the first.
TwinCall ==
    /\ runs < 2
    /\ trace' = <<>>
    /\ tape_pos' = 0
    /\ IF runs = 0
       THEN /\ tape' = <<>>
            /\ first' = [click_coords |-> click_coords', target_rgbs |-> target_rgbs',
                         trace |-> <<>>, sacrifice_count |-> 0]
       ELSE /\ click_coords' = first.click_coords
            /\ target_rgbs' = first.target_rgbs
            /\ UNCHANGED <<tape, first>>
    /\ TwinFrame

ReplayNext ==
    \/ RunAutomation /\ TwinCall
    \/ Validate /\ Twin
    \/ Initialize /\ Twin
    \/ CheckRunning /\ Twin
    \/ CheckCallback /\ Twin
    \/ Sample /\ Twin
    \/ NoneCheck /\ Twin
    \/ CheckSlot /\ Twin
    \/ DragMove /\ Twin
    \/ DragPress /\ Twin
    \/ DragMove2 /\ Twin
    \/ DragRelease /\ Twin
    \/ ConfirmSample /\ Twin
    \/ ConfirmCheck /\ Twin
    \/ ClickMove /\ Twin
    \/ Click /\ Twin
    \/ Count /\ Twin
    \/ Exit /\ Twin
    \/ Stop /\ Twin
    \/ ShouldStop /\ Twin

ReplaySpec == Init /\ [][ReplayNext]_vars

----------------------------------------------------------------------------
\* Setup mode (src/src/input_handlers.py, src/src/setup_manager.py) and the
\* configuration manager (src/config/config_manager.py).  The mouse listener
\* hands every click to MouseHandler.on_click; the main thread waits in
\* run_setup_mode until the last click of the setup has been handled.  The
\* configuration file is written by save_config and read when the
\* application starts.
MaxSlots == 3
MaxSlotSetting == 2
MaxSetups == 1

\* The values of the setting max_zodiac_slots a session runs with.
SlotSettings == {-1} \cup (1..MaxSlotSetting)

\* Where the user clicks, and what get_pixel_color returns there during the
\* setup: the colour of the pixel, or None where the capture fails.
ClickPoints == {<<10, 10>>, <<20, 10>>}
SetupScreen == [at \in ClickPoints |-> IF at = <<10, 10>> THEN <<100, 100, 100>> ELSE None]

\* Where the user clicks for the sacrifice box and for the sacrifice button.
BoxPoints == {<<30, 10>>}
ButtonPoints == {<<40, 10>>}

\* d[k] = v on a dict.
Put(d, k, v) == [x \in DOMAIN d \cup {k} |-> IF x = k THEN v ELSE d[x]]

\* SetupState.__init__ and SetupState.reset
FreshSetupState ==
    [current_step |-> "zodiac_slots", zodiac_slot_count |-> 0,
     click_coords |-> EmptyDict, target_rgbs |-> EmptyDict]

SetupStarts ==
    /\ setup_state = FreshSetupState
    /\ MAX_ZODIAC_SLOTS \in SlotSettings
    /\ config_manager = [click_coords |-> EmptyDict, target_rgbs |-> EmptyDict]
    /\ config_file = None
    /\ last_click = [button |-> "none", inside |-> FALSE, tick |-> 0]
    /\ current_mode = "None"
    /\ setups = 0
    /\ setup_complete = FALSE
    /\ setup_cancelled = FALSE
    /\ setup_pc = "idle"
    /\ cancel_requested = FALSE

SetupInit ==
    /\ EngineInit /\ GuiIdle /\ MatcherIdle /\ SamplerIdle
    /\ TwinIdle /\ CliIdle /\ SingleIdle /\ SetupStarts

SetupFrame == UNCHANGED <<MAX_ZODIAC_SLOTS, engine, failure, counters, gui, matcher, sampler,
                          twin, cli, single>>

\* No call of run_setup_mode is in progress: the command-line application is
\* in its menu, the setup thread of the GUI has not been started or is over.
InMenu == setup_pc = "idle"

\* on_click received a press of button; inside tells whether
\* _is_click_on_revolution_idle accepts its position.
Clicked(button, inside) ==
    last_click' = [button |-> button, inside |-> inside, tick |-> 1 - last_click.tick]

\* SetupManager.run_setup_mode, lines 69-108: the call, with the test
\* whether the game window exists.  Without the game the call marks the
\* setup cancelled and returns.
run_setup_mode ==
    /\ InMenu
    /\ setups < MaxSetups
    /\ setups' = setups + 1
    /\ \E _check_revolution_idle_running \in BOOLEAN :
          IF _check_revolution_idle_running
          THEN /\ setup_pc' = "entered"
               /\ UNCHANGED <<setup_complete, setup_cancelled>>
          ELSE /\ setup_cancelled' = TRUE
               /\ setup_complete' = TRUE
               /\ setup_pc' = "idle"
    /\ cancel_requested' = FALSE
    /\ UNCHANGED <<setup_state, current_mode, config_manager, config_file, last_click>>
    /\ SetupFrame

\* SetupManager.run_setup_mode, lines 110-118: the reset for the new
\* session and the switch of the mouse handler to setup mode.
run_setup_mode_reset ==
    /\ setup_pc = "entered"
    /\ setup_state' = FreshSetupState
    /\ setup_complete' = FALSE
    /\ setup_cancelled' = FALSE
    /\ current_mode' = "setup"
    /\ setup_pc' = "waiting"
    /\ UNCHANGED <<config_manager, config_file, last_click, setups, cancel_requested>>
    /\ SetupFrame

\* SetupManager.run_setup_mode, lines 122-129: the wait loop finds
\* setup_complete set and the call returns.
run_setup_mode_return ==
    /\ setup_pc = "waiting"
    /\ setup_complete
    /\ setup_pc' = "idle"
    /\ cancel_requested' = FALSE
    /\ UNCHANGED <<setup_state, config_manager, config_file, last_click, current_mode,
                   setups, setup_complete, setup_cancelled>>
    /\ SetupFrame

\* SetupManager.cancel_setup, called by the cancel button of the setup
\* window of the GUI (gui/app.py, _cancel_setup), which closes the window:
\* at most once in a session, at any time after _start_setup_process has
\* started the setup thread.
cancel_setup ==
    /\ setup_pc # "idle"
    /\ ~cancel_requested
    /\ setup_cancelled' = TRUE
    /\ setup_complete' = TRUE
    /\ cancel_requested' = TRUE
    /\ UNCHANGED <<setup_state, config_manager, config_file, last_click, current_mode,
                   setups, setup_pc>>
    /\ SetupFrame

\* MouseHandler.on_click, lines 103-114: a press received in a mode other
\* than setup is not handed to the setup handler, and its position is not
\* tested against the game window.
on_click ==
    /\ current_mode # "setup"
    /\ \E button \in {"left", "right"} : Clicked(button, FALSE)
    /\ UNCHANGED <<setup_state, config_manager, config_file, current_mode, setups, session>>
    /\ SetupFrame

\* _handle_setup_click, lines 119-125: a click outside the game window, and
\* lines 134-139: a left click when the setup is complete.
ClickIgnored ==
    /\ current_mode = "setup"
    /\ \E button \in {"left", "right"} :
          \/ Clicked(button, FALSE)
          \/ button = "left" /\ setup_state.current_step = "complete" /\ Clicked(button, TRUE)
    /\ UNCHANGED <<setup_state, config_manager, config_file, current_mode, setups, session>>
    /\ SetupFrame

\* StepAfterSlot as it would be if the limit were compared with <=.
StepAfterSlot_OneMore(count) ==
    IF MAX_ZODIAC_SLOTS = -1 THEN "zodiac_slots"
    ELSE IF count <= MAX_ZODIAC_SLOTS THEN "zodiac_slots"
    ELSE "sacrifice_box"

\* The step after a slot has been captured, lines 194-216.
StepAfterSlot(count) ==
    IF MAX_ZODIAC_SLOTS = -1 THEN "zodiac_slots"
    ELSE IF count < MAX_ZODIAC_SLOTS THEN "zodiac_slots"
    ELSE "sacrifice_box"

\* The capture of a slot colour as it would be if a failed capture were
\* skipped.
CapturedColors_SkipsNone(colors, slot_color) ==
    IF slot_color = None THEN colors ELSE Append(colors, slot_color)

\* _handle_zodiac_slot_click, lines 173-174: the colour get_pixel_color
\* returned is appended, None included.
CapturedColors(colors, slot_color) == Append(colors, slot_color)

\* MouseHandler._handle_zodiac_slot_click
_handle_zodiac_slot_click ==
    /\ current_mode = "setup"
    /\ setup_state.current_step = "zodiac_slots"
    /\ setup_state.zodiac_slot_count < MaxSlots
    /\ Clicked("left", TRUE)
    /\ \E at \in ClickPoints :
          LET slot_color == SetupScreen[at]
              fresh == "zodiac_slots" \notin DOMAIN setup_state.click_coords
              cc == IF fresh THEN Put(setup_state.click_coords, "zodiac_slots", <<>>)
                    ELSE setup_state.click_coords
              rgbs == IF fresh THEN Put(setup_state.target_rgbs, "zodiac_slots", <<>>)
                      ELSE setup_state.target_rgbs
              count == setup_state.zodiac_slot_count + 1
          IN  setup_state' =
                  [current_step |-> StepAfterSlot(count),
                   zodiac_slot_count |-> count,
                   click_coords |-> Put(cc, "zodiac_slots", Append(cc["zodiac_slots"], at)),
                   target_rgbs |-> Put(rgbs, "zodiac_slots",
                                       CapturedColors(rgbs["zodiac_slots"], slot_color))]
    /\ UNCHANGED <<config_manager, config_file, current_mode, setups, session>>
    /\ SetupFrame

\* The step after the sacrifice box as it would be if the button were not
\* asked for.
StepAfterBox_Completes == "complete"

\* _handle_sacrifice_box_click, line 240.
StepAfterBox == "sacrifice_button"

\* MouseHandler._handle_sacrifice_box_click
_handle_sacrifice_box_click ==
    /\ current_mode = "setup"
    /\ setup_state.current_step = "sacrifice_box"
    /\ Clicked("left", TRUE)
    /\ \E at \in BoxPoints :
          setup_state' = [setup_state EXCEPT
                             !.click_coords = Put(@, "sacrifice_box", at),
                             !.current_step = StepAfterBox]
    /\ UNCHANGED <<config_manager, config_file, current_mode, setups, session>>
    /\ SetupFrame

\* ConfigManager.save_config, lines 47-79: what the file holds afterwards.
\* json.dump writes tuples as lists and None as null; the file is left as it
\* was when it cannot be opened for writing.
save_config(cc, rgbs) ==
    \/ config_file' = [click_coords |-> cc, target_rgbs |-> rgbs]
    \/ UNCHANGED config_file

\* The copy to the configuration manager as it would be if only the
\* coordinates were copied.
CopyToConfig_CoordsOnly(state) ==
    [click_coords |-> state.click_coords, target_rgbs |-> config_manager.target_rgbs]

\* _on_setup_complete, lines 229-230.
CopyToConfig(state) ==
    [click_coords |-> state.click_coords, target_rgbs |-> state.target_rgbs]

\* MouseHandler._handle_sacrifice_button_click with the callback it calls,
\* SetupManager._on_setup_complete: a cancelled setup is neither copied nor
\* saved (lines 218-224).
_handle_sacrifice_button_click ==
    /\ current_mode = "setup"
    /\ setup_state.current_step = "sacrifice_button"
    /\ Clicked("left", TRUE)
    /\ \E at \in ButtonPoints :
          setup_state' = [setup_state EXCEPT
                             !.click_coords = Put(@, "sacrifice_button", at),
                             !.target_rgbs = Put(@, "sacrifice_button", SetupButtonRgb),
                             !.current_step = "complete"]
    /\ IF setup_cancelled
       THEN UNCHANGED <<config_manager, config_file, setup_complete>>
       ELSE /\ config_manager' = CopyToConfig(setup_state')
            /\ save_config(config_manager'.click_coords, config_manager'.target_rgbs)
            /\ setup_complete' = TRUE
    /\ UNCHANGED <<current_mode, setups, setup_cancelled, setup_pc, cancel_requested>>
    /\ SetupFrame

\* The right-click branch as it would be without the test of the slot count.
RightClick_AlwaysFinishes ==
    /\ current_mode = "setup"
    /\ Clicked("right", TRUE)
    /\ IF setup_state.current_step = "zodiac_slots"
       THEN setup_state' = [setup_state EXCEPT !.current_step = "sacrifice_box"]
       ELSE UNCHANGED setup_state
    /\ UNCHANGED <<config_manager, config_file, current_mode, setups, session>>
    /\ SetupFrame

\* _handle_setup_click, lines 141-161: a right click, with
\* _finish_zodiac_slots.
RightClick ==
    /\ current_mode = "setup"
    /\ Clicked("right", TRUE)
    /\ IF setup_state.current_step = "zodiac_slots" /\ setup_state.zodiac_slot_count > 0
       THEN setup_state' = [setup_state EXCEPT !.current_step = "sacrifice_box"]
       ELSE UNCHANGED setup_state
    /\ UNCHANGED <<config_manager, config_file, current_mode, setups, session>>
    /\ SetupFrame

\* ConfigManager._convert_rgbs_from_json
_convert_rgbs_from_json(loaded_target_rgbs) ==
    LET target == IF "zodiac_slots" \in DOMAIN loaded_target_rgbs
                  THEN Put(EmptyDict, "zodiac_slots", loaded_target_rgbs["zodiac_slots"])
                  ELSE EmptyDict
    IN  Put(target, "sacrifice_button", LoadedButtonRgb)

\* tuple(rgb) raises TypeError for a null entry, which load_config does not
\* catch.
Loadable ==
    config_file # None =>
        ("zodiac_slots" \in DOMAIN config_file.target_rgbs =>
            \A i \in DOMAIN config_file.target_rgbs["zodiac_slots"] :
                config_file.target_rgbs["zodiac_slots"][i] # None)

\* The application is started again: RevolutionIdleApp.__init__ with
\* ConfigManager.__init__ and load_config (simple mode).  With a file that
\* cannot be converted the constructor raises and no application follows.
Restart ==
    /\ InMenu
    /\ Loadable
    /\ setup_state' = FreshSetupState
    /\ current_mode' = "None"
    /\ config_manager' =
           IF config_file = None
           THEN [click_coords |-> EmptyDict, target_rgbs |-> EmptyDict]
           ELSE [click_coords |-> config_file.click_coords,
                 target_rgbs |-> _convert_rgbs_from_json(config_file.target_rgbs)]
    /\ setup_complete' = FALSE
    /\ setup_cancelled' = FALSE
    /\ UNCHANGED <<config_file, last_click, setups, setup_pc, cancel_requested>>
    /\ SetupFrame

SetupNext ==
    \/ run_setup_mode
    \/ run_setup_mode_reset
    \/ run_setup_mode_return
    \/ cancel_setup
    \/ on_click
    \/ ClickIgnored
    \/ _handle_zodiac_slot_click
    \/ _handle_sacrifice_box_click
    \/ _handle_sacrifice_button_click
    \/ RightClick
    \/ Restart

SetupSpec == SetupInit /\ [][SetupNext]_vars

----------------------------------------------------------------------------
\* Automation mode of the command-line application (src/src/app.py).  The
\* main thread resets the stop flag of the keyboard handler and calls
\* run_automation with a callback that reads the flag; the listener thread
\* runs on_press for every press of the stop key, at any time.
MaxCliCycles == 2
MaxCliRuns == 1

CliFrame == UNCHANGED <<failure, counters, gui, matcher, sampler, twin, setup, single>>

\* ConfigManager.validate_config
validate_config(cc, rgbs) ==
    /\ {"zodiac_slots", "sacrifice_box", "sacrifice_button"} \subseteq DOMAIN cc
    /\ {"zodiac_slots", "sacrifice_button"} \subseteq DOMAIN rgbs
    /\ cc["zodiac_slots"] # <<>>
    /\ rgbs["zodiac_slots"] # <<>>

\* _run_automation_mode, lines 136-145: automation is chosen in the menu
\* and the configuration is valid.
CliChoose ==
    /\ cli_pc = "menu"
    /\ pc = "idle"
    /\ runs < MaxCliRuns
    /\ cli_pc' = "reset"
    /\ pressedInRun' = FALSE
    /\ cyclesAtPress' = 0
    /\ UNCHANGED <<engine, stop_automation, key_pc>>
    /\ CliFrame

\* _run_automation_mode, line 148, with KeyboardHandler.reset_stop_flag.
reset_stop_flag ==
    /\ cli_pc = "reset"
    /\ stop_automation' = FALSE
    /\ cli_pc' = "call"
    /\ UNCHANGED <<engine, key_pc, pressedInRun, cyclesAtPress>>
    /\ CliFrame

\* _run_automation_mode, lines 154-158: run_automation is called with the
\* dictionaries of the configuration manager and the callback
\* lambda: self.keyboard_handler.stop_automation.
CliCall ==
    /\ cli_pc = "call"
    /\ RunAutomation
    /\ validate_config(click_coords', target_rgbs')
    /\ stop_callback' = IF stop_automation THEN "true" ELSE "false"
    /\ cli_pc' = "run"
    /\ pressedInRun' = FALSE
    /\ cyclesAtPress' = 0
    /\ UNCHANGED <<stop_automation, key_pc>>
    /\ CliFrame

\* A statement of run_automation executed by the main thread; when the call
\* returns the main thread is back in the menu.
CliStep ==
    /\ cycles' <= MaxCliCycles
    /\ cli_pc' = IF pc' = "idle" THEN "menu" ELSE cli_pc
    /\ UNCHANGED <<stop_automation, key_pc, pressedInRun, cyclesAtPress>>
    /\ CliFrame

\* History of the first press of the stop key during a call.
NotePress ==
    /\ pressedInRun' = (pressedInRun \/ pc # "idle")
    /\ cyclesAtPress' = IF ~pressedInRun /\ pc # "idle" THEN cycles ELSE cyclesAtPress

\* on_press as it would be if it only called on_stop_automation.
on_press_NoFlag ==
    /\ key_pc = "idle"
    /\ key_pc' = "on_stop_automation"
    /\ NotePress
    /\ UNCHANGED <<engine, stop_automation, cli_pc>>
    /\ CliFrame

\* KeyboardHandler.on_press, lines 462-464: the stop key sets the flag; the
\* callback of a call in progress returns true from now on.
on_press ==
    /\ key_pc = "idle"
    /\ stop_automation' = TRUE
    /\ key_pc' = "on_stop_automation"
    /\ IF pc # "idle" /\ stop_callback = "false" THEN ShouldStop ELSE UNCHANGED engine
    /\ NotePress
    /\ UNCHANGED cli_pc
    /\ CliFrame

\* KeyboardHandler.on_press, lines 465-466, with
\* RevolutionIdleApp._on_stop_automation: engine.stop().
on_stop_automation ==
    /\ key_pc = "on_stop_automation"
    /\ Stop
    /\ key_pc' = "idle"
    /\ UNCHANGED <<stop_automation, cli_pc, pressedInRun, cyclesAtPress>>
    /\ CliFrame

CliNext ==
    \/ CliChoose
    \/ reset_stop_flag
    \/ CliCall
    \/ Validate /\ CliStep
    \/ Initialize /\ CliStep
    \/ CheckRunning /\ CliStep
    \/ CheckCallback /\ CliStep
    \/ Sample /\ CliStep
    \/ NoneCheck /\ CliStep
    \/ CheckSlot /\ CliStep
    \/ DragMove /\ CliStep
    \/ DragPress /\ CliStep
    \/ DragMove2 /\ CliStep
    \/ DragRelease /\ CliStep
    \/ ConfirmSample /\ CliStep
    \/ ConfirmCheck /\ CliStep
    \/ ClickMove /\ CliStep
    \/ Click /\ CliStep
    \/ Count /\ CliStep
    \/ Exit /\ CliStep
    \/ on_press
    \/ on_stop_automation

\* The main thread is scheduled as long as run_automation has a statement
\* to execute.
CliSpec == Init /\ [][CliNext]_vars /\ WF_vars(Engine /\ CliStep)

-----------------------------------------------------------------------------
\* The two pixel samplers of src/utils/color_utils.py called for coordinates
\* at and near the left and upper edge of the screen: get_pixel_color
\* captures the region of 5 pixels around (x, y), cut at 0;
\* get_multiple_pixel_colors captures the padded bounding box, which is not
\* cut.
MaxBatch == 2

\* get_pixel_color, line 29
region_size == 5

\* The x and y values of the coordinates: on the edge, nearer to it than
\* region_size, at that distance, and farther.
OffsetValues == {0, 3, 5, 9}
OffsetPoints == OffsetValues \X OffsetValues

\* The coordinate lists of the batch: a corner of the screen, a point on
\* each edge and one off the edges.
BatchPoints == {<<0, 0>>, <<0, 9>>, <<9, 0>>, <<3, 5>>}
OffsetLists == UNION {[1..n -> BatchPoints] : n \in 1..MaxBatch}

\* The display during the calls: one colour everywhere; a capture either
\* works or raises an OSError.
OffsetScreens ==
    {[grab_raises |-> r, pixel |-> [p \in Points |-> <<100, 100, 100>>]] : r \in BOOLEAN}

Max(a, b) == IF a > b THEN a ELSE b

\* get_pixel_color, lines 30-33: (left, top, right, bottom).
pixel_bbox(x, y) ==
    <<Max(0, x - region_size), Max(0, y - region_size), x + region_size, y + region_size>>

\* The offset as it would be if the target were taken to be the centre of
\* the region.
region_offset_Centre(v, low) == region_size

\* get_pixel_color, lines 38-39: region_x = x - left, region_y = y - top.
region_offset(v, low) == v - low

\* Both functions have been called, each with coordinates that are not
\* negative.
OffsetCalled ==
    /\ batch_coordinates \in OffsetLists
    /\ batch_screen \in OffsetScreens
    /\ batch_pc = "called"
    /\ screenshot = None
    /\ grabs = 0
    /\ batch_colors = <<>>
    /\ batch_result = None
    /\ px_pc = "called"
    /\ px_at \in OffsetPoints
    /\ px_image = [origin |-> <<0, 0>>, size |-> <<0, 0>>]
    /\ px_region = <<0, 0>>
    /\ px_result = None

OffsetInit ==
    /\ EngineInit /\ GuiIdle /\ MatcherIdle
    /\ TwinIdle /\ SetupIdle /\ CliIdle /\ OffsetCalled

SingleFrame ==
    UNCHANGED <<px_at, engine, failure, counters, gui, matcher, sampler, twin, setup, cli>>

\* get_pixel_color, lines 29-35 and 49-51: the capture of the region; an
\* OSError makes the call return None.
PixelGrab ==
    /\ px_pc = "called"
    /\ IF batch_screen.grab_raises
       THEN /\ px_pc' = "returned"
            /\ px_result' = None
            /\ UNCHANGED px_image
       ELSE /\ px_image' = grab(pixel_bbox(px_at[1], px_at[2]))
            /\ px_pc' = "grabbed"
            /\ UNCHANGED px_result
    /\ UNCHANGED px_region
    /\ SingleFrame

\* get_pixel_color, lines 38-48 and 52-54: the offsets inside the region,
\* the pixel read there and the return of its first three channels; an
\* IndexError makes the call return None.
PixelRead ==
    /\ px_pc = "grabbed"
    /\ LET box == pixel_bbox(px_at[1], px_at[2])
           region_x == region_offset(px_at[1], box[1])
           region_y == region_offset(px_at[2], box[2])
           pixel_color == getpixel(px_image, region_x, region_y)
       IN  /\ px_region' = <<region_x, region_y>>
           /\ px_result' = IF pixel_color # NoPixel /\ Len(pixel_color) >= 3
                           THEN SubSeq(pixel_color, 1, 3) ELSE None
    /\ px_pc' = "returned"
    /\ UNCHANGED px_image
    /\ SingleFrame

OffsetNext ==
    \/ BatchStart
    \/ BatchGrab
    \/ BatchReadPixel
    \/ BatchReturnColors
    \/ PixelGrab
    \/ PixelRead

OffsetSpec == OffsetInit /\ [][OffsetNext]_vars

----------------------------------------------------------------------------
\* Readings of the event log of the current cycle.
Presses == {i \in DOMAIN events : events[i].op = "press"}
Releases == {i \in DOMAIN events : events[i].op = "release"}
Clicks == {i \in DOMAIN events : events[i].op = "click"}
FreshSamples == {i \in DOMAIN events : events[i].op = "sample_one"}

\* The index of the slot whose coordinate is `at`.
SlotAt(at) ==
    CHOOSE k \in 0..(Len(click_coords["zodiac_slots"]) - 1) :
        click_coords["zodiac_slots"][k + 1] = at

\* The slot dragged by the press logged at position i: the one the mouse was
\* moved to just before.
DraggedSlot(i) == SlotAt(events[i - 1].at)

DraggedSlots == {DraggedSlot(i) : i \in Presses}

\* The slots whose colour in the cycle's batch sample matches their target.
MatchingSlots ==
    {k \in 0..(ZipLen - 1) :
        colors_match(zodiac_colors[k + 1], target_rgbs["zodiac_slots"][k + 1],
                     COLOR_TOLERANCE)}

----------------------------------------------------------------------------
\* C1 (as stated): in every cycle at most one drag is performed, and it is
\* the drag of the lowest-index matching slot, whatever the confirm check says.
C1_OneDragPerCycle ==
    /\ Cardinality(Presses) <= 1
    /\ \A i \in Presses : \A m \in MatchingSlots : DraggedSlot(i) <= m

\* C1 (amended): the slots dragged in a cycle are matching slots, taken in
\* list order from the lowest-index one without skipping a matching slot and
\* each at most once; a further slot is dragged only while no confirm click
\* has happened in the cycle, so after a click nothing more is dragged.
C1_DragsInOrderUntilClick ==
    Presses # {} =>
        /\ DraggedSlots \subseteq MatchingSlots
        /\ \A k \in DraggedSlots : \A m \in MatchingSlots : m < k => m \in DraggedSlots
        /\ \A i, j \in Presses : i < j => DraggedSlot(i) < DraggedSlot(j)
        /\ \A c \in Clicks : \A i \in Presses : i < c
        /\ Cardinality(Clicks) <= 1

\* Two slots matched in the batch, the first was dragged and confirmed by a
\* click, and the cycle ended without a second drag.
C1_Witness ==
    /\ pc = "check"
    /\ Clicks # {}
    /\ Cardinality(MatchingSlots) >= 2
    /\ Cardinality(Presses) = 1

----------------------------------------------------------------------------
ButtonMatches(color) ==
    colors_match(color, target_rgbs["sacrifice_button"], COLOR_TOLERANCE)

BatchSamples == {i \in DOMAIN events : events[i].op = "sample_batch"}

MoveTo(at) == Event("moveTo", at, None)

\* The engine is between the end of one loop body and the next.
AtLoopCheck == pc \in {"check", "check_cb", "exit"}

\* C2: after a drag whose fresh confirm sample does not match, the engine
\* does not click and does not count, and goes on with the next slot of the
\* list in the same cycle and with the same batch sample; the batch is
\* sampled once per cycle and no slot is dragged twice in a cycle.
C2_FailedConfirmContinues ==
    /\ [][(pc = "confirm_check" /\ ~ButtonMatches(current_sacrifice_color) /\ pc' # pc)
            => /\ pc' = "slots"
               /\ slot_index' = slot_index + 1
               /\ UNCHANGED <<current_colors, sacrifice_count, events, cycles>>]_vars
    /\ [](\A i \in FreshSamples :
            ~ButtonMatches(events[i].got) /\ i < Len(events)
                => /\ events[i + 1].op = "moveTo"
                   /\ events[i + 1].at \in
                          {click_coords["zodiac_slots"][k + 1] : k \in MatchingSlots}
                   /\ SlotAt(events[i + 1].at) > SlotAt(events[i - 4].at))
    /\ [](Cardinality(BatchSamples) <= 1)
    /\ [](\A i \in BatchSamples : i = 1 /\ events[i].got = current_colors)
    /\ [](\A i, j \in Presses : i # j => DraggedSlot(i) # DraggedSlot(j))

\* A second slot is being dragged in a cycle after the confirm check of the
\* first drag failed; nothing was clicked.
C2_Witness ==
    /\ Cardinality(Presses) = 2
    /\ Clicks = {}
    /\ \E i \in FreshSamples : ~ButtonMatches(events[i].got)

\* C3: a fresh confirm sample that matches is followed by exactly moveTo(the
\* confirm coordinate) and one click, then by one increment of the counter
\* by 1, and then by the loop check of the next cycle: no further slot is
\* evaluated, sampled or dragged in the cycle.
C3_MatchClicksOnceAndRestarts ==
    /\ [](\A i \in FreshSamples : ButtonMatches(events[i].got) =>
            /\ Len(events) <= i + 2
            /\ Len(events) >= i + 1 => events[i + 1] = MoveTo(click_coords["sacrifice_button"])
            /\ Len(events) >= i + 2 => events[i + 2].op = "click"
            /\ Len(events) = i => pc \in {"confirm_check", "click_move"}
            /\ Len(events) = i + 1 => pc = "click"
            /\ Len(events) = i + 2 => pc = "count" \/ AtLoopCheck)
    /\ [](Cardinality(Clicks) <= 1)
    /\ [][(pc = "count" /\ pc' # pc)
            => pc' = "check" /\ sacrifice_count' = sacrifice_count + 1]_vars
    /\ [][sacrifice_count' # sacrifice_count => pc \in {"count", "init"}]_vars

\* A cycle has ended with a matching fresh sample, one click and a count of 1.
C3_Witness ==
    /\ pc = "check"
    /\ Clicks # {}
    /\ sacrifice_count = 1
    /\ \E i \in FreshSamples : ButtonMatches(events[i].got)

\* C4: every click is preceded by moveTo(the confirm coordinate), that by a
\* fresh sample of the confirm coordinate that matches the confirm target,
\* and that by the release of the drag; and a cycle that has ended holds a
\* click exactly if it holds a matching fresh sample, whatever colour the
\* batch sample had for the confirm coordinate.
C4_ClickOnlyOnFreshMatch ==
    /\ \A c \in Clicks :
          /\ c >= 4
          /\ events[c - 1] = MoveTo(click_coords["sacrifice_button"])
          /\ events[c - 2].op = "sample_one"
          /\ events[c - 2].at = click_coords["sacrifice_button"]
          /\ ButtonMatches(events[c - 2].got)
          /\ events[c - 3].op = "release"
    /\ (AtLoopCheck /\ events # <<>>) =>
          (Clicks # {} <=> \E i \in FreshSamples : ButtonMatches(events[i].got))

\* A click was issued in a cycle whose batch sample showed a non-matching
\* colour at the confirm coordinate.
C4_Witness ==
    /\ Clicks # {}
    /\ ~ButtonMatches(current_colors[Len(current_colors)])

\* C5: every press is preceded by moveTo(the coordinate of a slot whose
\* batch colour matched) and followed by moveTo(the drop zone) and then the
\* release, with nothing in between; every release ends such a drag, the
\* fresh confirm sample comes directly after the release, and the mouse
\* is inside a drag only while the engine executes the drag.
C5_DragSequenceExact ==
    /\ \A i \in Presses :
          /\ i >= 2
          /\ events[i - 1].op = "moveTo"
          /\ DraggedSlot(i) \in MatchingSlots
          /\ events[i - 1].at = click_coords["zodiac_slots"][DraggedSlot(i) + 1]
          /\ Len(events) >= i + 1 => events[i + 1] = MoveTo(click_coords["sacrifice_box"])
          /\ Len(events) >= i + 2 => events[i + 2].op = "release"
          /\ Len(events) = i => pc = "drag_move2"
          /\ Len(events) = i + 1 => pc = "drag_release"
    /\ \A j \in Releases : j >= 3 /\ (j - 2) \in Presses
    /\ \A k \in FreshSamples : (k - 1) \in Releases
    /\ \A m \in DOMAIN events :
          (events[m].op = "moveTo" /\ events[m].at = click_coords["sacrifice_box"])
              => (m - 1) \in Presses

\* A complete drag of the second slot is in the log and its confirm sample
\* is about to be taken.
C5_Witness ==
    /\ pc = "confirm_sample"
    /\ Len(events) >= 5
    /\ Len(click_coords["zodiac_slots"]) >= 2
    /\ events[Len(events)].op = "release"
    /\ events[Len(events) - 3] = MoveTo(click_coords["zodiac_slots"][2])

----------------------------------------------------------------------------
\* A call of run_automation has passed validation.
Validated == pc \notin {"idle", "validate"}

Rejected == pc = "idle" /\ last_result = "config_error"

\* Every required entry is there and both slot lists are non-empty.
EntriesPresent ==
    /\ {"zodiac_slots", "sacrifice_box", "sacrifice_button"} \subseteq DOMAIN click_coords
    /\ {"zodiac_slots", "sacrifice_button"} \subseteq DOMAIN target_rgbs
    /\ Len(click_coords["zodiac_slots"]) >= 1
    /\ Len(target_rgbs["zodiac_slots"]) >= 1

\* C6 (as stated): a call rejected by validation has sampled, dragged and
\* clicked nothing, entered no cycle, and returns with successCount = 0.
C6_RejectedRunCountsZero ==
    /\ Validated => EntriesPresent
    /\ Rejected => events = <<>> /\ cycles = 0 /\ sacrifice_count = 0

\* C6 (amended): a call with zero slots or a missing entry never gets past
\* validation; when it returns it has sampled, dragged and clicked nothing
\* and entered no cycle, and successCount is what it was before the call.
C6_RejectedRunLeavesCount ==
    /\ Validated => EntriesPresent
    /\ Rejected => events = <<>> /\ cycles = 0 /\ sacrifice_count = countAtEntry

\* A second call was rejected after a first run that had counted a success.
C6_Witness ==
    /\ Rejected
    /\ runs = 2
    /\ sacrifice_count >= 1

\* C7: the engine is past validation only with a configuration that holds
\* a slot with coordinate and target colour, a drop zone, and a confirm
\* target with coordinate and colour.
C7_RunsOnlyWithValidSlot ==
    Validated =>
        /\ EntriesPresent
        /\ \E k \in 1..Min(Len(click_coords["zodiac_slots"]),
                           Len(target_rgbs["zodiac_slots"])) :
              /\ click_coords["zodiac_slots"][k] # None
              /\ target_rgbs["zodiac_slots"][k] # None
        /\ click_coords["sacrifice_box"] # None
        /\ click_coords["sacrifice_button"] # None
        /\ target_rgbs["sacrifice_button"] # None

\* C8: once a stop request has arrived inside a cycle, the engine enters no
\* further cycle of that call and counts at most one more success; it
\* leaves the loop only at the loop check, never from inside the
\* drag-confirm-click sequence, and is_running is false when it returns.
C8_StopWithinOneCycle ==
    /\ [][(stopInCycle /\ pc # "idle") => cycles' = cycles]_vars
    /\ [](stopInCycle /\ pc # "idle" => sacrifice_count <= countAtStop + 1)
    /\ [][(pc' = "exit" /\ pc # "exit") => pc \in {"check", "check_cb"}]_vars
    /\ [][(pc = "exit" /\ pc' # pc) => pc' = "idle" /\ ~is_running']_vars

\* The loop has ended after a stop request that arrived inside a cycle,
\* before the click of that cycle was counted.
C8_Witness ==
    /\ pc = "exit"
    /\ stopInCycle
    /\ sacrifice_count = countAtStop + 1

\* C9: a stop() issued while run_automation is executing is still in force
\* at the next loop check, so that check ends the loop.
C9_StopNeverLost == (pc = "check" /\ stopIssued) => ~is_running

StopCondition == ~is_running \/ stop_callback = "true"

\* C10: the loop is left only when is_running is false or the callback
\* returns true; from a loop check at which that holds run_automation
\* returns; and every cycle, once entered, comes back to the loop check.
C10_TerminatesOnStop ==
    /\ [][(pc' = "exit" /\ pc # "exit") => StopCondition]_vars
    /\ (pc = "check" /\ StopCondition) ~> (pc = "idle")
    /\ (pc \in CycleBody) ~> (pc = "check")

\* A run that executed two cycles has returned through the loop exit.
C10_Witness ==
    /\ pc = "idle"
    /\ last_result = "completed"
    /\ cycles = MaxFairCycles

----------------------------------------------------------------------------
\* The positions from the first loop check to the statements after the loop.
LoopActive == pc \in ({"check", "check_cb", "exit"} \cup CycleBody)

\* C11: is_running is true only while the loop of a validated call is
\* active; whenever no call of run_automation is executing it is false,
\* however the call ended (stop, callback, or an exception raised by the
\* collaborator).
C11_RunningOnlyWhileLoopActive == is_running => LoopActive

\* C12: once the collaborator has raised during a mouse event, the call has
\* ended and is reported as failed: no statement of the loop is executed
\* after the exception.
C12_FailureEndsRun == failure # "none" => (pc = "idle" /\ last_result = "raised")

----------------------------------------------------------------------------
\* C13: a cycle whose batch sample holds a failed entry, for a slot or for
\* the confirm coordinate, issues no mouse event and takes no fresh sample;
\* the skip changes neither the counter nor is_running and leads to the
\* loop check, from which a run that was not stopped enters the next cycle;
\* that cycle samples again, and a complete sample is evaluated from the
\* first slot.
C13_FailedBatchSkipsCycle ==
    /\ [](\A i \in BatchSamples : HasNone(events[i].got) =>
            /\ Len(events) = 1
            /\ pc = "none_check" \/ AtLoopCheck)
    /\ [][(pc = "none_check" /\ HasNone(current_colors) /\ pc' # pc)
            => /\ pc' = "check"
               /\ UNCHANGED <<sacrifice_count, is_running, events, cycles, last_result>>]_vars
    /\ [][(pc = "check" /\ is_running /\ stop_callback = "None" /\ pc' # pc)
            => pc' = "sleep" /\ cycles' = cycles + 1]_vars
    /\ [][(pc = "sleep" /\ pc' # pc)
            => /\ pc' = "none_check"
               /\ events' = <<Event("sample_batch", NoCoord, current_colors')>>]_vars
    /\ [][(pc = "none_check" /\ ~HasNone(current_colors) /\ pc' # pc)
            => pc' = "slots" /\ slot_index' = 0]_vars

\* The second cycle of a run is about to sample; the first was skipped
\* because the confirm coordinate's entry of its batch had failed while the
\* slot's entry matched, and the run is still on.
C13_Witness ==
    /\ pc = "sleep"
    /\ cycles = 2
    /\ is_running
    /\ current_colors[Len(current_colors)] = None
    /\ MatchingSlots # {}

----------------------------------------------------------------------------
\* C14: the counter is 0 when a run has been initialized; it changes only
\* there and by +1 directly after a confirm click; so during the loop it
\* equals the number of confirm clicks the run has issued (one less between
\* a click and its increment) and never exceeds the number of drags the run
\* has issued.
C14_CountIsClicksOfRun ==
    /\ [][(pc = "init" /\ pc' # pc) => sacrifice_count' = 0]_vars
    /\ [][sacrifice_count' # sacrifice_count
            => \/ pc = "init"
               \/ /\ pc = "count"
                  /\ sacrifice_count' = sacrifice_count + 1
                  /\ events[Len(events)].op = "click"]_vars
    /\ [][LoopActive /\ pc' # "idle" => sacrifice_count' >= sacrifice_count]_vars
    /\ [](LoopActive =>
            /\ clicksInRun = sacrifice_count + (IF pc = "count" THEN 1 ELSE 0)
            /\ clicksInRun <= dragsInRun
            /\ sacrifice_count <= dragsInRun)

\* A second run, started on a tracker that had counted a success, has
\* issued two drags and one confirm click and counts 1.
C14_Witness ==
    /\ pc = "check"
    /\ runs = 2
    /\ countAtEntry >= 1
    /\ dragsInRun = 2
    /\ clicksInRun = 1
    /\ sacrifice_count = 1

----------------------------------------------------------------------------
\* C15: at most one automation thread is inside the loop of run_automation
\* at any time, whatever the order of button clicks and stop-key presses.
C15_SingleWorker == Cardinality({w \in Workers : worker[w] \in InEngineLoop}) <= 1

----------------------------------------------------------------------------
\* A call of colors_match on two colours has returned.
MatchedColors ==
    /\ match_pc = "returned"
    /\ match_args.color1 # None
    /\ match_args.color2 # None

\* The distance of the two colours in channel i.
ChannelDiff(i) == Abs(match_args.color1[i] - match_args.color2[i])

\* C16: for a sampled and a target colour and a tolerance t >= 0,
\* colors_match returns true exactly if every channel differs by at most t:
\* one channel further apart than t makes it false, and a distance of
\* exactly t matches.
C16_MatchIffEveryChannelWithin ==
    MatchedColors =>
        /\ match_result <=> \A i \in 1..3 : ChannelDiff(i) <= match_args.tolerance
        /\ (\E i \in 1..3 : ChannelDiff(i) > match_args.tolerance) => ~match_result

\* Two colours whose green channels are exactly the tolerance apart, and
\* no channel further, were found to match.
C16_Witness ==
    /\ MatchedColors
    /\ match_args.tolerance = COLOR_TOLERANCE
    /\ ChannelDiff(2) = COLOR_TOLERANCE
    /\ match_result

\* C17: colors_match returns the same for (a, b, t) as for (b, a, t).
C17_MatchSymmetric ==
    MatchedColors =>
        match_result = colors_match(match_args.color2, match_args.color1,
                                     match_args.tolerance)

\* A colour was found to match another one with larger channel values.
C17_Witness ==
    /\ MatchedColors
    /\ match_result
    /\ \A i \in 1..3 : match_args.color1[i] < match_args.color2[i]

\* C18: a colour matches itself at every tolerance, zero included.
C18_MatchReflexive ==
    (MatchedColors /\ match_args.color1 = match_args.color2) => match_result

\* A colour was compared with itself at tolerance 0.
C18_Witness ==
    /\ MatchedColors
    /\ match_args.color1 = match_args.color2
    /\ match_args.tolerance = 0
    /\ match_result

----------------------------------------------------------------------------
\* An absent colour matches no colour and no absent colour, at any tolerance.
NoneNeverMatches ==
    \A c \in Colors \cup ScreenColors \cup {None} : \A t \in Tolerances :
        ~colors_match(None, c, t) /\ ~colors_match(c, None, t)

\* C19: colors_match(None, c, t) is false for every c and t; so every slot
\* that is dragged had a colour in the batch sample, every click follows a
\* fresh confirm sample that is a colour, and a failed fresh sample leads on
\* to the next slot with the counter and the event log untouched.
C19_FailedSampleNeverMatches ==
    /\ [](NoneNeverMatches)
    /\ [](\A i \in Presses : zodiac_colors[DraggedSlot(i) + 1] # None)
    /\ [](\A c \in Clicks : events[c - 2].op = "sample_one" /\ events[c - 2].got # None)
    /\ [][(pc = "confirm_check" /\ current_sacrifice_color = None /\ pc' # pc)
            => pc' = "slots" /\ UNCHANGED <<sacrifice_count, events>>]_vars
    /\ []((AtLoopCheck /\ \A i \in FreshSamples : events[i].got = None) => Clicks = {})

\* A cycle has ended in which a slot was dragged, the fresh confirm sample
\* failed, and nothing was clicked or counted.
C19_Witness ==
    /\ pc = "check"
    /\ Presses # {}
    /\ \A i \in FreshSamples : events[i].got = None
    /\ Clicks = {}
    /\ sacrifice_count = 0

----------------------------------------------------------------------------
\* The colour get_multiple_pixel_colors reports for a pixel value.
Reported(pixel_color) ==
    IF Len(pixel_color) >= 3 THEN SubSeq(pixel_color, 1, 3) ELSE None

\* Neither the capture nor the read of any listed coordinate fails.
NothingFails ==
    /\ ~batch_screen.grab_raises
    /\ \A i \in DOMAIN batch_coordinates : DisplayAt(batch_coordinates[i]) # NoPixel

\* C20: for a non-empty list, get_multiple_pixel_colors returns a list of
\* the same length; entry i is None or the colour of the display at
\* coordinate i, and it is that colour (None for a pixel value without three
\* channels) when nothing fails; the call makes exactly one capture, also
\* when the capture or a pixel read fails, and never more than one.
C20_BatchSameLengthOneCapture ==
    /\ grabs <= 1
    /\ (batch_pc = "returned" /\ batch_coordinates # <<>>) =>
          /\ grabs = 1
          /\ Len(batch_result) = Len(batch_coordinates)
          /\ \A i \in DOMAIN batch_coordinates :
                \/ batch_result[i] = None
                \/ batch_result[i] = Reported(DisplayAt(batch_coordinates[i]))
          /\ NothingFails =>
                \A i \in DOMAIN batch_coordinates :
                    batch_result[i] = Reported(DisplayAt(batch_coordinates[i]))
          /\ ~NothingFails => batch_result = AllNone(batch_coordinates)

\* A call for two coordinates has returned two different colours, each at
\* the place of its coordinate, after one capture.
C20_Witness ==
    /\ batch_pc = "returned"
    /\ Len(batch_coordinates) >= 2
    /\ grabs = 1
    /\ batch_result[1] = <<219, 124, 0>>
    /\ batch_result[2] = <<100, 100, 100>>
    /\ DisplayAt(batch_coordinates[1]) = <<219, 124, 0, 255>>

----------------------------------------------------------------------------
\* C21: called with an empty list, get_multiple_pixel_colors returns an
\* empty list and makes no capture.
C21_EmptyBatchNoCapture ==
    (batch_pc = "returned" /\ batch_coordinates = <<>>) =>
        /\ batch_result = <<>>
        /\ grabs = 0
        /\ screenshot = None

\* A call with an empty list has returned, on a display whose capture
\* would have raised.
C21_Witness ==
    /\ batch_pc = "returned"
    /\ batch_coordinates = <<>>
    /\ batch_screen.grab_raises

\* C22: when the capture succeeds, every coordinate whose pixel can be read
\* yields its colour, whatever happens to the other coordinates of the
\* batch.
C22_EntriesFailAlone ==
    (batch_pc = "returned" /\ ~batch_screen.grab_raises) =>
        \A i \in DOMAIN batch_coordinates :
            DisplayAt(batch_coordinates[i]) # NoPixel
                => batch_result[i] = Reported(DisplayAt(batch_coordinates[i]))

\* C23: from the call of run_automation to its return no step changes
\* click_coords or target_rgbs: neither the slot coordinates and colours nor
\* the drop zone, the confirm coordinate or the confirm colour.
C23_ConfigReadOnly ==
    [][(pc # "idle" /\ pc' # "idle") => UNCHANGED <<click_coords, target_rgbs>>]_vars

\* The second cycle of a run on the two-slot configuration is ending after
\* a stop request, with a click counted in the run and a failed confirm
\* sample in this cycle, and the configuration is the one passed in.
C23_Witness ==
    /\ pc = "exit"
    /\ cycles = 2
    /\ stopInCycle
    /\ sacrifice_count >= 1
    /\ \E i \in FreshSamples : events[i].got = None
    /\ click_coords = Configs[5].click_coords
    /\ target_rgbs = Configs[5].target_rgbs

----------------------------------------------------------------------------
IsPrefix(a, b) == Len(a) <= Len(b) /\ SubSeq(b, 1, Len(a)) = a

\* C24: slot selection is deterministic.  A call of run_automation that is
\* given the configuration of an earlier call and draws the same samples
\* (batch and confirm) in the same order issues the same mouse events on the
\* same slot indices as far as it has come, and once it has returned having
\* drawn all of them it has issued the same drags and clicks and leaves the
\* same sacrifice count.
C24_SelectionDeterministic ==
    runs > 1 =>
        /\ IsPrefix(trace, first.trace)
        /\ (pc = "idle" /\ tape_pos = Len(tape)) =>
               /\ trace = first.trace
               /\ sacrifice_count = first.sacrifice_count

\* The replayed call has returned after a drag whose confirm failed and a
\* second drag that was confirmed and clicked.
C24_Witness ==
    /\ runs > 1 /\ pc = "idle" /\ tape_pos = Len(tape)
    /\ sacrifice_count = 1
    /\ \E i, j \in DOMAIN trace :
          /\ trace[i].op = "press" /\ trace[j].op = "press"
          /\ trace[i].slot_index = 0 /\ trace[j].slot_index = 1

----------------------------------------------------------------------------
\* C25 (as stated): the target colour of the sacrifice button that the
\* configuration manager hands to the engine is always (219, 124, 0),
\* whether it comes from a setup completed in this session or from the
\* saved file.
C25_ButtonTargetHardcoded ==
    "sacrifice_button" \in DOMAIN config_manager.target_rgbs
        => config_manager.target_rgbs["sacrifice_button"] = SetupButtonRgb

\* A step in which the setup handler received a click.
ClickStep == last_click' # last_click

\* C26: with max_zodiac_slots = N > 0 the number of captured slots never
\* exceeds N, and the left click that captures slot N moves setup to the
\* sacrifice-box step; with -1 a left click always adds a slot and stays in
\* the zodiac-slots step; a right click after at least one slot moves on
\* with the slots captured so far, fewer than N included.
C26_SlotLimit ==
    /\ [](MAX_ZODIAC_SLOTS > 0 =>
              /\ setup_state.zodiac_slot_count <= MAX_ZODIAC_SLOTS
              /\ (setup_state.current_step = "zodiac_slots"
                      => setup_state.zodiac_slot_count < MAX_ZODIAC_SLOTS))
    /\ [][(ClickStep /\ current_mode = "setup" /\ last_click'.inside
               /\ setup_state.current_step = "zodiac_slots") =>
             LET n == setup_state.zodiac_slot_count
                 captured == setup_state'.zodiac_slot_count
                 step == setup_state'.current_step
             IN  IF last_click'.button = "left"
                 THEN /\ captured = n + 1
                      /\ Len(setup_state'.click_coords["zodiac_slots"]) = captured
                      /\ step = IF MAX_ZODIAC_SLOTS > 0 /\ captured = MAX_ZODIAC_SLOTS
                                THEN "sacrifice_box" ELSE "zodiac_slots"
                 ELSE /\ captured = n
                      /\ n > 0 => step = "sacrifice_box"]_vars

\* A setup with a limit of two slots was completed with one.
C26_Witness ==
    /\ MAX_ZODIAC_SLOTS = 2
    /\ setup_state.current_step = "complete"
    /\ setup_state.zodiac_slot_count = 1
    /\ Len(config_manager.click_coords["zodiac_slots"]) = 1

\* C27: a right click with no slot captured leaves the setup where it is,
\* and the steps after the zodiac-slots step are reached only with at least
\* one slot coordinate captured.
C27_AtLeastOneSlot ==
    /\ [](setup_state.current_step # "zodiac_slots" =>
              /\ setup_state.zodiac_slot_count >= 1
              /\ Len(setup_state.click_coords["zodiac_slots"]) >= 1)
    /\ [][(ClickStep /\ last_click'.button = "right" /\ setup_state.zodiac_slot_count = 0)
              => setup_state' = setup_state]_vars

\* A right click on the game window was received with no slot captured.
C27_Witness ==
    /\ current_mode = "setup"
    /\ setup_state.current_step = "zodiac_slots"
    /\ setup_state.zodiac_slot_count = 0
    /\ last_click.button = "right" /\ last_click.inside

----------------------------------------------------------------------------
\* C28: in the command-line application a press of the stop key during a
\* call of run_automation makes the call return: no loop iteration is
\* entered after the press (the one in progress is finished), because the
\* flag the press sets is seen by the next loop check even where the stop()
\* that follows it is lost, and the main thread is back in the menu.
C28_StopKeyEndsRun ==
    /\ [](pressedInRun => cycles = cyclesAtPress)
    /\ (pressedInRun ~> (pc = "idle" /\ cli_pc = "menu"))

\* The call has returned, after an iteration during which the key was
\* pressed, before the listener thread has called stop().
C28_Witness ==
    /\ pc = "idle" /\ cli_pc = "menu"
    /\ pressedInRun /\ cyclesAtPress = 1
    /\ key_pc = "on_stop_automation"
    /\ is_running = FALSE
    /\ last_result = "completed"

----------------------------------------------------------------------------
\* The positions at which the engine decides or samples: the loop check,
\* the batch sample, the confirm sample, and the end of the loop.
DecisionPoints == {"check", "check_cb", "sleep", "confirm_sample", "exit"}

\* The presses and releases of the log alternate, starting with a press and
\* ending with a release.
ButtonUp ==
    /\ Cardinality(Presses) = Cardinality(Releases)
    /\ \A i \in Presses : \E j \in Releases :
          /\ j > i
          /\ \A k \in Presses \cup Releases : ~(i < k /\ k < j)

\* C29 (as stated): at every loop check, at every sample and at the end of
\* the loop, every press the engine has issued has been followed by its
\* release: the mouse button is not held down.
C29_ButtonUpAtDecisions == pc \in DecisionPoints => ButtonUp

----------------------------------------------------------------------------
\* The positions of _perform_sacrifice_action: a slot has been chosen.
ActingOnSlot == {"drag_move", "drag_press", "drag_move2", "drag_release", "confirm_sample",
                 "confirm_check", "click_move", "click", "count"}

\* C30: while the engine acts on a slot, slot_index is an index of the
\* configured coordinate list and of the target colour list, the colour
\* sampled at coordinate slot_index was compared with target colour
\* slot_index and matches it, every drag of the cycle starts at the
\* coordinate of a slot below the length of the shorter list, and the batch
\* holds one colour per slot coordinate, in order, and the button's.
C30_SlotIndexValid ==
    LET slots == click_coords["zodiac_slots"]
        targets == target_rgbs["zodiac_slots"]
    IN  /\ pc \in ActingOnSlot =>
               /\ 0 <= slot_index
               /\ slot_index < Len(slots)
               /\ slot_index < Len(targets)
               /\ colors_match(current_colors[slot_index + 1], targets[slot_index + 1],
                               COLOR_TOLERANCE)
        /\ pc \in ActingOnSlot \ {"drag_move"} =>
               \E i \in Presses \cup {Len(events) + 1} :
                   /\ \A j \in Presses : j <= i
                   /\ events[i - 1] = MoveTo(slots[slot_index + 1])
        /\ pc \in CycleBody \ {"sleep"} =>
               /\ Len(current_colors) = Len(slots) + 1
               /\ \A i \in Presses :
                      \E k \in 0..(Min(Len(slots), Len(targets)) - 1) :
                          events[i - 1] = MoveTo(slots[k + 1])

\* A slot is being dragged under a configuration with fewer coordinates
\* than target colours.
C30_Witness ==
    /\ pc = "drag_move2"
    /\ Len(click_coords["zodiac_slots"]) < Len(target_rgbs["zodiac_slots"])
    /\ Presses # {}

-----------------------------------------------------------------------------
\* The order of the setup steps.
StepRank(step) ==
    CASE step = "zodiac_slots" -> 0
      [] step = "sacrifice_box" -> 1
      [] step = "sacrifice_button" -> 2
      [] step = "complete" -> 3

\* C31: a click never moves the setup step backwards and never by more than
\* one step (zodiac_slots, sacrifice_box, sacrifice_button, complete); the
\* step returns to zodiac_slots only where the state is reset, never by a
\* click; and once the step is complete a click changes nothing of the
\* setup state (coordinates, colours, count, step).
C31_StepsForward ==
    /\ [][ClickStep =>
             \/ StepRank(setup_state'.current_step) = StepRank(setup_state.current_step)
             \/ StepRank(setup_state'.current_step) = StepRank(setup_state.current_step) + 1]_vars
    /\ [][(setup_state.current_step # "zodiac_slots"
              /\ setup_state'.current_step = "zodiac_slots")
             => ~ClickStep /\ setup_state' = FreshSetupState]_vars
    /\ [][(ClickStep /\ setup_state.current_step = "complete")
             => setup_state' = setup_state]_vars

\* A left click on the game window was received after the setup was
\* completed.
C31_Witness ==
    /\ current_mode = "setup"
    /\ setup_state.current_step = "complete"
    /\ setup_complete
    /\ last_click.button = "left" /\ last_click.inside
    /\ setup_pc = "idle"

\* The list stored under zodiac_slots, empty before the first capture.
SlotList(d) == IF "zodiac_slots" \in DOMAIN d THEN d["zodiac_slots"] ELSE <<>>

\* C32: the list of slot coordinates and the list of slot target colours
\* always have the length zodiac_slot_count; a click in the sacrifice_box or
\* sacrifice_button step leaves both lists and the count as they are; a
\* click received in a mode other than setup leaves the whole setup state
\* as it is.
C32_SlotListsAgree ==
    /\ [](/\ Len(SlotList(setup_state.click_coords)) = setup_state.zodiac_slot_count
          /\ Len(SlotList(setup_state.target_rgbs)) = setup_state.zodiac_slot_count)
    /\ [][(ClickStep /\ setup_state.current_step \in {"sacrifice_box", "sacrifice_button"})
             => /\ SlotList(setup_state'.click_coords) = SlotList(setup_state.click_coords)
                /\ SlotList(setup_state'.target_rgbs) = SlotList(setup_state.target_rgbs)
                /\ setup_state'.zodiac_slot_count = setup_state.zodiac_slot_count]_vars
    /\ [][(ClickStep /\ current_mode # "setup") => setup_state' = setup_state]_vars

\* A setup was completed with a slot whose colour could not be captured, and
\* a click was received before any setup had been started.
C32_Witness ==
    /\ setup_state.current_step = "complete"
    /\ setup_state.zodiac_slot_count = 2
    /\ \E i \in 1..2 : setup_state.target_rgbs["zodiac_slots"][i] = None
    /\ Len(setup_state.click_coords["zodiac_slots"]) = 2

\* A click was received in a mode other than setup.
C32_OtherMode == current_mode = "None" /\ last_click.button # "none"

\* C33: when the setup step is complete and the setup has not been
\* cancelled, the configuration held by the configuration manager passes
\* ConfigManager.validate_config and the validation of the engine.
C33_CompletedSetupValid ==
    (setup_state.current_step = "complete" /\ ~setup_cancelled)
        => /\ validate_config(config_manager.click_coords, config_manager.target_rgbs)
           /\ _validate_config(config_manager.click_coords, config_manager.target_rgbs)

\* A setup was completed, not cancelled, and its file could not be written.
C33_Witness ==
    /\ setup_state.current_step = "complete"
    /\ ~setup_cancelled
    /\ setup_complete
    /\ config_file = None
    /\ config_manager.click_coords = setup_state.click_coords

\* C34 (as stated): once cancel_setup has been called for a session, no
\* click of that session changes the dictionaries of the configuration
\* manager or the saved file.
C34_CancelledNeverSaved ==
    [][(cancel_requested /\ ClickStep) => UNCHANGED <<config_manager, config_file>>]_vars

\* C35 (as stated, as the safety property it rests on): a cancel requested
\* for a session stays recorded until run_setup_mode returns, so that the
\* wait loop ends and the call returns with setup_cancelled true.
C35_CancelNeverLost ==
    cancel_requested => (setup_cancelled /\ setup_complete)

-----------------------------------------------------------------------------
\* C36: the steps of a call of run_automation that validation rejects (the
\* call and the return of line 51) leave is_running, the sacrifice counter
\* and the tracker as they were: tracking is not started, so the start time
\* is not assigned.
C36_RejectedRunTouchesNothing ==
    [][((pc = "idle" /\ pc' = "validate") \/ (pc = "validate" /\ pc' = "idle"))
          => UNCHANGED <<is_running, sacrifice_count, tracking>>]_vars

\* A call was rejected after a run that had started tracking and counted a
\* success: the count and the tracker of that run are still there.
C36_Witness ==
    /\ Rejected
    /\ runs = 2
    /\ tracking
    /\ ~is_running
    /\ sacrifice_count >= 1
    /\ countAtEntry = sacrifice_count

-----------------------------------------------------------------------------
\* C37: in the GUI, when _stop_automation has run during the start delay of
\* an automation thread and no automation has been started since, that
\* thread never enters the body of a loop iteration (no sample, drag or
\* click), and is_automation_running is false, also when the thread has
\* finished.
C37_StopInDelayNoCycle ==
    \A w \in stoppedInDelay :
        /\ worker[w] # "body"
        /\ w \notin cycled
        /\ ~is_automation_running

\* A thread stopped during its delay went on to call run_automation, left
\* the loop at its first check and has finished.
C37_Witness ==
    \E w \in stoppedInDelay :
        /\ worker[w] = "finished"
        /\ w \notin cycled
        /\ after_queue = <<>>

-----------------------------------------------------------------------------
\* C38 (as stated): in the command-line application a press of the stop key
\* received before the stop flag is reset for a run (in the menu, after the
\* previous run) does not end that run: the loop of run_automation is left
\* only when the stop key has been pressed since reset_stop_flag, that is,
\* when stop_automation is set.
C38_StalePressHarmless ==
    [][(pc \in {"check", "check_cb"} /\ pc' = "exit") => stop_automation]_vars

-----------------------------------------------------------------------------
\* The offset v - low lies inside a region that starts at low and ends
\* before high.
Inside(v, low, high) == 0 <= v - low /\ v - low < high - low

\* C39: for coordinates that are not negative the pixel offsets lie inside
\* the captured region.  In get_multiple_pixel_colors, for every coordinate
\* (x, y) of the list, 0 <= x - (min_x - 5) < (max_x + 5) - (min_x - 5) and
\* likewise for y, and the captured image has that size; in get_pixel_color
\* 0 <= x - max(0, x - 5) < (x + 5) - max(0, x - 5) and likewise for y, these
\* being the offsets the call computes and the size of the image it reads.
C39_OffsetsInsideRegion ==
    /\ batch_pc \in {"loop", "returned"} /\ ~batch_screen.grab_raises =>
          LET xs == {batch_coordinates[i][1] : i \in DOMAIN batch_coordinates}
              ys == {batch_coordinates[i][2] : i \in DOMAIN batch_coordinates}
          IN  /\ screenshot.origin = <<MinOf(xs) - 5, MinOf(ys) - 5>>
              /\ screenshot.size = <<(MaxOf(xs) + 5) - (MinOf(xs) - 5),
                                     (MaxOf(ys) + 5) - (MinOf(ys) - 5)>>
              /\ \A i \in DOMAIN batch_coordinates :
                    /\ Inside(batch_coordinates[i][1], MinOf(xs) - 5, MaxOf(xs) + 5)
                    /\ Inside(batch_coordinates[i][2], MinOf(ys) - 5, MaxOf(ys) + 5)
              /\ batch_pc = "returned" => batch_result = batch_colors
    /\ px_pc = "returned" /\ ~batch_screen.grab_raises =>
          LET x == px_at[1]
              y == px_at[2]
          IN  /\ px_region = <<x - Max(0, x - 5), y - Max(0, y - 5)>>
              /\ px_image.size = <<(x + 5) - Max(0, x - 5), (y + 5) - Max(0, y - 5)>>
              /\ Inside(x, Max(0, x - 5), x + 5)
              /\ Inside(y, Max(0, y - 5), y + 5)
              /\ px_region[1] \in 0..(px_image.size[1] - 1)
              /\ px_region[2] \in 0..(px_image.size[2] - 1)
              /\ px_result # None

\* get_pixel_color has read the pixel at (0, 3), where the region is cut at
\* both edges, and get_multiple_pixel_colors has read two coordinates, one
\* of them on the edge.
C39_Witness ==
    /\ px_pc = "returned"
    /\ px_at = <<0, 3>>
    /\ px_region = <<0, 3>>
    /\ px_image.size = <<5, 8>>
    /\ px_result = Background
    /\ batch_pc = "returned"
    /\ batch_coordinates = <<(<<0, 9>>), (<<9, 0>>)>>
    /\ screenshot.origin = <<-5, -5>>
    /\ Len(batch_result) = 2
====
